---- MODULE Spec2Model ----
(***************************************************************************)
(* A model of the retrieval pipeline of mcp-openfda: the chunker, scorer,  *)
(* ranker, summarizer and citation extractor of src/src/rag-utils.ts and   *)
(* the ae_pipeline_rag handler of src/src/index.ts.                        *)
(*                                                                         *)
(* A JavaScript string is a sequence of one-character strings; indices in  *)
(* the operators below are 0-based, as in the source.                      *)
(***************************************************************************)
EXTENDS Integers, Sequences, FiniteSets, TLC

VARIABLES
  pc,          \* position of the modelled call
  text,        \* chunkText: the text parameter
  chunkSize,   \* chunkText: the chunkSize parameter
  overlap,     \* chunkText: the overlap parameter
  start,       \* chunkText: the cursor
  chunkIndex,  \* chunkText: the running index
  chunks,      \* chunkText: the chunks pushed so far
  args,        \* the arguments of a call of one of the pure functions
  result,      \* what that call returned
  inv          \* the ae_pipeline_rag tool calls: each invocation's position and data

vars == <<pc, text, chunkSize, overlap, start, chunkIndex, chunks, args, result, inv>>

chunkVars == <<text, chunkSize, overlap, start, chunkIndex, chunks>>

----------------------------------------------------------------------------
(* Bounds of the model *)

\* Longest text over BreakAlphabet given to chunkText.
MaxTextLen == 8

\* Longest text over Alphabet given to chunkText.
MaxShortLen == 4

\* Largest chunkSize given to chunkText.
MaxChunkSize == 7

----------------------------------------------------------------------------
(* JavaScript string primitives *)

Min(a, b) == IF a < b THEN a ELSE b

Max(a, b) == IF a > b THEN a ELSE b

\* The least element of a non-empty set of numbers.
MinOf(S) == CHOOSE x \in S : \A y \in S : x <= y

\* s.slice(from, to)
Slice(s, from, to) ==
      \* A relative index of slice(): negative counts from the end, clamped to [0, n].
  LET SliceIndex(i, n) == IF i < 0 THEN Max(n + i, 0) ELSE Min(i, n)
  IN
  LET a == SliceIndex(from, Len(s))
      b == SliceIndex(to, Len(s))
  IN  IF a < b THEN SubSeq(s, a + 1, b) ELSE <<>>

IsWhitespace(c) == c \in {" ", "\n", "\t", "\r"}

\* s.trim()
Trim(s) ==
  LET keep == {i \in 1..Len(s) : ~IsWhitespace(s[i])}
  IN  IF keep = {} THEN <<>>
      ELSE SubSeq(s, MinOf(keep), 0 - MinOf({0 - i : i \in keep}))

----------------------------------------------------------------------------
(* chunkText *)

\* breakPoint > chunkSize * 0.7, over the integers: for the chunk sizes of the
\* model (1..10 and 1000) the double product chunkSize * 0.7 compares with an
\* integer exactly as 7 * chunkSize / 10 does.
\* Mutant: the cut is taken at any break point, however early.
BreakAnywhere(breakPoint, cs) == breakPoint >= 0

\* Mutant: the break is taken when the characters it retains, breakPoint + 1,
\* are at least 70% of chunkSize.
BreakRetainsSeventy(breakPoint, cs) == 10 * (breakPoint + 1) >= 7 * cs

BreakRetainsEnough(breakPoint, cs) == 10 * breakPoint > 7 * cs

\* The piece of text one iteration cuts at cursor st (before trimming).
ChunkPiece(t, cs, st) ==
      \* s.lastIndexOf(c) for a one-character c: -1 when c does not occur.
  LET LastIndexOf(s, c) ==
        LET hits == {i \in 1..Len(s) : s[i] = c}
        IN  IF hits = {} THEN -1 ELSE (CHOOSE i \in hits : \A j \in hits : j <= i) - 1
  IN
  LET end    == Min(st + cs, Len(t))
      window == Slice(t, st, end)
      breakPoint == Max(LastIndexOf(window, "."), LastIndexOf(window, "\n"))
  IN  IF end < Len(t) /\ BreakRetainsEnough(breakPoint, cs)
      THEN Slice(window, 0, breakPoint + 1)
      ELSE window

\* The decimal digits of n >= 0, as `${n}` prints it.
RECURSIVE Digits(_)
Digits(n) ==
  LET d == <<"0", "1", "2", "3", "4", "5", "6", "7", "8", "9">>[(n % 10) + 1]
  IN  IF n < 10 THEN <<d>> ELSE Append(Digits(n \div 10), d)

\* `${sourceId}_chunk_${chunkIndex}`
ChunkId(sourceId, idx) ==
  sourceId \o <<"_", "c", "h", "u", "n", "k", "_">> \o Digits(idx)

\* { ...metadata, chunkIndex, start, end: start + chunkText.length }
ChunkMetadata(metadata, idx, st, end) ==
  [k \in DOMAIN metadata \cup {"chunkIndex", "start", "end"} |->
     CASE k = "chunkIndex" -> idx
       [] k = "start" -> st
       [] k = "end" -> end
       [] OTHER -> metadata[k]]

\* The chunk pushed by the iteration at cursor st with index idx.
MakeChunk(t, cs, st, idx, sourceId, metadata) ==
  LET piece == ChunkPiece(t, cs, st)
  IN  [id       |-> ChunkId(sourceId, idx),
       text     |-> Trim(piece),
       source   |-> sourceId,
       metadata |-> ChunkMetadata(metadata, idx, st, st + Len(piece))]

\* Mutant: the cursor is not forced forward when the advance is not positive.
NextStartUnforced(t, cs, ov, st) == st + Len(ChunkPiece(t, cs, st)) - ov

\* The cursor after the iteration at cursor st.
NextStart(t, cs, ov, st) ==
  LET advanced == st + Len(ChunkPiece(t, cs, st)) - ov
  IN  IF advanced <= st THEN st + cs ELSE advanced

\* chunkText as a function of its arguments: the chunks pushed from cursor st on.
RECURSIVE ChunksFrom(_, _, _, _, _, _, _)
ChunksFrom(t, cs, ov, st, idx, sourceId, metadata) ==
  IF st < Len(t)
  THEN <<MakeChunk(t, cs, st, idx, sourceId, metadata)>>
         \o ChunksFrom(t, cs, ov, NextStart(t, cs, ov, st), idx + 1, sourceId, metadata)
  ELSE <<>>

ChunkTextOf(t, cs, ov, sourceId, metadata) ==
  IF Len(t) = 0 THEN <<>> ELSE ChunksFrom(t, cs, ov, 0, 0, sourceId, metadata)

----------------------------------------------------------------------------
(* scoreChunkByQuery *)

UpperLetters == <<"A", "B", "C", "D", "E", "F", "G", "H", "I", "J", "K", "L", "M",
                  "N", "O", "P", "Q", "R", "S", "T", "U", "V", "W", "X", "Y", "Z">>

UpperSet == {UpperLetters[i] : i \in 1..Len(UpperLetters)}

LowerChar(c) ==
  LET LowerLetters == <<"a", "b", "c", "d", "e", "f", "g", "h", "i", "j", "k", "l", "m",
                        "n", "o", "p", "q", "r", "s", "t", "u", "v", "w", "x", "y", "z">>
  IN
  IF c \in UpperSet
  THEN LowerLetters[CHOOSE i \in 1..Len(UpperLetters) : UpperLetters[i] = c]
  ELSE c

\* s.toLowerCase()
ToLowerCase(s) == [i \in 1..Len(s) |-> LowerChar(s[i])]

\* s.split(/\s+/): the pieces between maximal runs of whitespace, the empty
\* leading and trailing pieces included.
RECURSIVE SplitFrom(_, _, _, _)
SplitFrom(s, i, cur, acc) ==
  IF i > Len(s) THEN Append(acc, cur)
  ELSE IF IsWhitespace(s[i])
       THEN IF i > 1 /\ IsWhitespace(s[i - 1])
            THEN SplitFrom(s, i + 1, cur, acc)
            ELSE SplitFrom(s, i + 1, <<>>, Append(acc, cur))
       ELSE SplitFrom(s, i + 1, Append(cur, s[i]), acc)

SplitWhitespace(s) == SplitFrom(s, 1, <<>>, <<>>)

\* array.filter(keep), for the predicate "length > 2" both uses have.
RECURSIVE LongerThanTwo(_)
LongerThanTwo(words) ==
  IF words = <<>> THEN <<>>
  ELSE (IF Len(Head(words)) > 2 THEN <<Head(words)>> ELSE <<>>)
         \o LongerThanTwo(Tail(words))

\* new RegExp(keyword) matched at position i of t from pattern position j on:
\* the position after the match, or 0 if there is none. The keywords of the
\* model are made of letters, digits, blanks, '.' (any character but a line
\* terminator) and '+' (one or more of the preceding character, as many as the
\* rest of the pattern allows).
RECURSIVE RegexMatchEnd(_, _, _, _)
RegexMatchEnd(t, keyword, i, j) ==
  LET CharMatches(p, c) == IF p = "." THEN c \notin {"\n", "\r"} ELSE p = c
      runs == {n \in 1..(Len(t) - i + 1) :
                 \A m \in 0..(n - 1) : CharMatches(keyword[j], t[i + m])}
      ends == {n \in runs : RegexMatchEnd(t, keyword, i + n, j + 2) > 0}
  IN  IF j > Len(keyword) THEN i
      ELSE IF j < Len(keyword) /\ keyword[j + 1] = "+"
           THEN IF ends = {} THEN 0
                ELSE RegexMatchEnd(t, keyword, i + (CHOOSE n \in ends : \A m \in ends : m <= n),
                                   j + 2)
           ELSE IF i <= Len(t) /\ CharMatches(keyword[j], t[i])
                THEN RegexMatchEnd(t, keyword, i + 1, j + 1)
                ELSE 0

\* Whether the pattern matches at position i. (A pattern without '+' matches
\* as many characters as it has.)
RegexMatchAt(t, keyword, i) ==
  IF \E j \in 1..Len(keyword) : keyword[j] = "+"
  THEN RegexMatchEnd(t, keyword, i, 1) > 0
  ELSE /\ i + Len(keyword) - 1 <= Len(t)
       /\ \A j \in 1..Len(keyword) :
            IF keyword[j] = "." THEN t[i + j - 1] \notin {"\n", "\r"}
            ELSE keyword[j] = t[i + j - 1]

\* (text.match(new RegExp(keyword, 'g')) || []).length: the matches found
\* scanning left to right, each search resuming after the previous match.
RECURSIVE CountMatchesFrom(_, _, _)
CountMatchesFrom(t, keyword, i) ==
  LET found == {j \in i..Len(t) : RegexMatchAt(t, keyword, j)}
  IN  IF found = {} THEN 0
      ELSE 1 + CountMatchesFrom(t, keyword, RegexMatchEnd(t, keyword, MinOf(found), 1))

CountMatches(t, keyword) == CountMatchesFrom(t, keyword, 1)

\* t.includes(q)
Includes(t, q) ==
  \E i \in 1..(Len(t) + 1) :
    /\ i + Len(q) - 1 <= Len(t)
    /\ \A j \in 1..Len(q) : t[i + j - 1] = q[j]

\* The largest r with r * r <= x.
RECURSIVE ISqrtBetween(_, _, _)
ISqrtBetween(x, lo, hi) ==
  IF lo >= hi THEN lo
  ELSE LET mid == (lo + hi + 1) \div 2
       IN  IF mid * mid <= x THEN ISqrtBetween(x, mid, hi)
           ELSE ISqrtBetween(x, lo, mid - 1)

AllKeywords(query, extraKeywords) ==
  LongerThanTwo(SplitWhitespace(ToLowerCase(query))
                  \o [i \in 1..Len(extraKeywords) |-> ToLowerCase(extraKeywords[i])])

\* The sum the keyword loop accumulates, in thousandths.
RECURSIVE KeywordScore(_, _)
KeywordScore(t, keywords) ==
      \* Scores are fixed-point numbers with three decimals: the value v stands for
      \* v / 1000. LogMilli[n] is Math.log(1 + n) in that unit.
  LET LogMilli == <<693, 1099, 1386, 1609, 1792, 1946, 2079, 2197, 2303, 2398, 2485, 2565, 2639, 2708, 2773, 2833, 2890, 2944, 2996, 3045, 3091, 3135, 3178, 3219>>
  IN
  IF keywords = <<>> THEN 0
  ELSE CountMatches(t, Head(keywords)) * LogMilli[Len(Head(keywords))]
         + KeywordScore(t, Tail(keywords))

PhraseBonus(t, queryLower) ==
  IF Includes(t, queryLower) THEN Len(queryLower) * 2 * 1000 ELSE 0

\* score / Math.sqrt(text.length): 0 / 0 is NaN. (With an empty text the
\* accumulated score is 0: no keyword matches and only the empty query is
\* included in it.)
Normalize(score, len) ==
      \* A score is a number or NaN.
  LET NaN == [nan |-> TRUE, v |-> 0]
  IN
      \* Math.sqrt(n) in thousandths.
  LET SqrtMilli(n) == ISqrtBetween(n * 1000000, 0, 46340)
  IN
  LET Num(v) == [nan |-> FALSE, v |-> v]
  IN
  IF len = 0 THEN NaN
  ELSE Num((score * 1000) \div SqrtMilli(len))

ScoreChunkByQuery(chunk, query, extraKeywords) ==
  LET t == ToLowerCase(chunk.text)
      queryLower == ToLowerCase(query)
  IN  Normalize(KeywordScore(t, AllKeywords(query, extraKeywords))
                  + PhraseBonus(t, queryLower),
                Len(t))

----------------------------------------------------------------------------
(* rankAndPickTop *)

\* (a, b) => (b.score || 0) - (a.score || 0)
CompareByScore(a, b) ==
      \* score || 0, the value the comparator of sort() reads: NaN and 0 are falsy.
  LET ScoreOrZero(score) == IF score.nan THEN 0 ELSE score.v
  IN  ScoreOrZero(b.score) - ScoreOrZero(a.score)

\* Mutant: an insertion that puts x before the elements it ties with.
RECURSIVE InsertBeforeTies(_, _)
InsertBeforeTies(sorted, x) ==
  IF sorted = <<>> THEN <<x>>
  ELSE IF CompareByScore(Head(sorted), x) < 0
       THEN <<Head(sorted)>> \o InsertBeforeTies(Tail(sorted), x)
       ELSE <<x>> \o sorted

\* Array.prototype.sort is stable: x goes after every element the comparator
\* does not order after it.
RECURSIVE InsertSorted(_, _)
InsertSorted(sorted, x) ==
  IF sorted = <<>> THEN <<x>>
  ELSE IF CompareByScore(Head(sorted), x) <= 0
       THEN <<Head(sorted)>> \o InsertSorted(Tail(sorted), x)
       ELSE <<x>> \o sorted

\* scoredChunks.sort(...)
RECURSIVE SortByScore(_)
SortByScore(list) ==
  IF list = <<>> THEN <<>>
  ELSE InsertSorted(SortByScore(SubSeq(list, 1, Len(list) - 1)), list[Len(list)])

\* chunks.map(chunk => ({...chunk, score: scoreChunkByQuery(...)}))
WithScores(list, query, extraKeywords) ==
  [i \in 1..Len(list) |->
     [id |-> list[i].id, text |-> list[i].text, source |-> list[i].source,
      metadata |-> list[i].metadata,
      score |-> ScoreChunkByQuery(list[i], query, extraKeywords)]]

\* Mutant: the score is stored on the chunk that was given.
ChunkWithScore(chunk, query, extraKeywords) ==
  [id |-> chunk.id, text |-> chunk.text, source |-> chunk.source,
   metadata |-> chunk.metadata, score |-> ScoreChunkByQuery(chunk, query, extraKeywords)]

\* The chunk the caller holds once scoreChunkByQuery has returned: the
\* function reads chunk.text and assigns to nothing of the chunk.
ChunkAfterScore(chunk, query, extraKeywords) == chunk

\* Mutant: the array that was given is sorted in place.
ChunksSortedInPlace(list, query, extraKeywords) ==
  SortByScore([i \in 1..Len(list) |-> ChunkAfterScore(list[i], query, extraKeywords)
                                        @@ [score |-> ScoreChunkByQuery(list[i], query,
                                                                        extraKeywords)]])

\* The array the caller holds once rankAndPickTop has returned: map() builds
\* a new array of new objects, and sort() and slice() work on that one.
ChunksAfterRank(list, query, extraKeywords) ==
  [i \in 1..Len(list) |-> ChunkAfterScore(list[i], query, extraKeywords)]

\* Mutant: the first topK chunks are taken before they are sorted.
PickThenRank(list, query, topK, extraKeywords) ==
  SortByScore(Slice(WithScores(list, query, extraKeywords), 0, topK))

\* Mutant: a quota of one chunk for each source: of the sorted chunks only the
\* best of every source is kept before the first topK are taken.
RankOnePerSource(list, query, topK, extraKeywords) ==
  LET sorted == SortByScore(WithScores(list, query, extraKeywords))
      best == {k \in 1..Len(sorted) :
                 \A j \in 1..(k - 1) : sorted[j].source # sorted[k].source}
  IN  Slice([n \in 1..Cardinality(best) |->
               sorted[CHOOSE k \in best : Cardinality({j \in best : j < k}) = n - 1]],
            0, topK)

RankAndPickTop(list, query, topK, extraKeywords) ==
  Slice(SortByScore(WithScores(list, query, extraKeywords)), 0, topK)

----------------------------------------------------------------------------
(* The inputs of the chunker specification *)

RECURSIVE StringsOfLen(_, _)
StringsOfLen(alphabet, n) ==
  IF n = 0 THEN {<<>>}
  ELSE {Append(s, c) : s \in StringsOfLen(alphabet, n - 1), c \in alphabet}

\* chunkText("A. B. C. D. E.", 6, 2, "doc1")
DocOne == <<"d", "o", "c", "1">>

\* metadata = {}
NoMetadata == <<>>

NoCall == [fn |-> "none"]

NoResult == [kind |-> "none"]

\* No tool call is modelled.
NoInvocations == <<>>

ChunkInit ==
  LET Texts ==
        LET Alphabet == {"a", ".", "\n", " "}
            BreakAlphabet == {"a", "."}
            ScenarioText == <<"A", ".", " ", "B", ".", " ", "C", ".", " ", "D", ".", " ", "E", ".">>
            StringsUpTo(alphabet, n) == UNION {StringsOfLen(alphabet, k) : k \in 0..n}
        IN
        StringsUpTo(Alphabet, MaxShortLen) \cup StringsUpTo(BreakAlphabet, MaxTextLen)
          \cup {ScenarioText}
  IN
  /\ text \in Texts
  /\ chunkSize \in 1..MaxChunkSize
  /\ overlap \in 0..(chunkSize - 1)
  /\ pc = "entry"
  /\ start = 0
  /\ chunkIndex = 0
  /\ chunks = <<>>
  /\ args = NoCall
  /\ result = NoResult
  /\ inv = NoInvocations

\* if (!text || text.length === 0) return [];
ChunkEnter ==
  /\ pc = "entry"
  /\ pc' = IF Len(text) = 0 THEN "done" ELSE "loop"
  /\ UNCHANGED <<chunkVars, args, result, inv>>

\* One iteration of while (start < text.length).
ChunkIterate ==
  /\ pc = "loop"
  /\ start < Len(text)
  /\ chunks' = Append(chunks, MakeChunk(text, chunkSize, start, chunkIndex, DocOne, NoMetadata))
  /\ start' = NextStart(text, chunkSize, overlap, start)
  /\ chunkIndex' = chunkIndex + 1
  /\ UNCHANGED <<pc, text, chunkSize, overlap, args, result, inv>>

\* The loop condition fails: return chunks.
ChunkReturn ==
  /\ pc = "loop"
  /\ start >= Len(text)
  /\ pc' = "done"
  /\ UNCHANGED <<chunkVars, args, result, inv>>

ChunkNext == ChunkEnter \/ ChunkIterate \/ ChunkReturn

ChunkSpec == ChunkInit /\ [][ChunkNext]_vars

----------------------------------------------------------------------------
(* Claims about chunkText *)

Returned == pc = "done"

SpanLen(c) == c.metadata.end - c.metadata.start

\* The cursor was forced forward by chunkSize after chunk k.
ForcedAfter(k) ==
  /\ SpanLen(chunks[k]) <= overlap
  /\ k < Len(chunks) => chunks[k + 1].metadata.start = chunks[k].metadata.start + chunkSize

\* C1 (as claimed): the spans [metadata.start, metadata.end) of the returned
\* chunks of a non-empty text cover every index of [0, len(text)), and no chunk
\* starts after the end of its predecessor.
C1_SpansCoverText ==
  (Returned /\ Len(text) > 0) =>
    /\ \A i \in 0..(Len(text) - 1) :
         \E k \in 1..Len(chunks) :
           chunks[k].metadata.start <= i /\ i < chunks[k].metadata.end
    /\ \A k \in 1..(Len(chunks) - 1) :
         chunks[k + 1].metadata.start <= chunks[k].metadata.end

C3_CursorAdvances ==
  [][(pc = "loop" /\ start < Len(text)) =>
       (start' > start /\ chunkIndex' <= Len(text) /\ Len(chunks') = chunkIndex')]_vars

\* A call that returned after the cursor was forced forward by chunkSize in the
\* middle of the text.
C3_Witness ==
  /\ Returned
  /\ start >= Len(text)
  /\ \E k \in 1..(Len(chunks) - 1) : ForcedAfter(k)

\* The text of chunk k without the part its predecessor already covers.
WithoutOverlap(k) ==
  IF k = 1 THEN chunks[k].text
  ELSE Slice(chunks[k].text,
             Max(0, chunks[k - 1].metadata.end - chunks[k].metadata.start),
             Len(chunks[k].text))

RECURSIVE JoinWithoutOverlap(_)
JoinWithoutOverlap(k) ==
  IF k = 0 THEN <<>> ELSE JoinWithoutOverlap(k - 1) \o WithoutOverlap(k)

\* C4 (as claimed): the returned chunk texts, each without the part that
\* overlaps its predecessor, concatenate to the original text, and each text
\* is at most chunkSize long.
C4_RoundTrip ==
  Returned =>
    /\ JoinWithoutOverlap(Len(chunks)) = text
    /\ \A k \in 1..Len(chunks) : Len(chunks[k].text) <= chunkSize

----------------------------------------------------------------------------
(* The specification of the calls of rankAndPickTop *)

\* Most chunks of one call.
MaxRankChunks == 3

\* topK ranges over -MaxTopK..MaxTopK.
MaxTopK == 3

RankTexts ==
  LET TextWarningTwice == <<"w", "a", "r", "n", "i", "n", "g", " ", "w", "a", "r", "n", "i", "n", "g">>
      TextUnrelated == <<"u", "n", "r", "e", "l", "a", "t", "e", "d">>
      TextWarningCaps == <<"B", "o", "x", "e", "d", " ", "W", "A", "R", "N", "I", "N", "G">>
      TextSafety == <<"s", "a", "f", "e", "t", "y">>
      TextPlus == <<"a", "+", "b">>
  IN  {TextWarningTwice, TextUnrelated, TextWarningCaps, TextSafety, TextPlus, <<>>}

QueryWarning == <<"w", "a", "r", "n", "i", "n", "g">>

RankQueries ==
  LET QuerySafetyWarning == <<"s", "a", "f", "e", "t", "y", " ", "w", "a", "r", "n", "i", "n", "g">>
      QueryPlus == <<"a", "+", "b", " ", "d", "o", "s", "e">>
  IN  {QueryWarning, QuerySafetyWarning, QueryPlus, <<>>}

RankExtraKeywords == {<<>>, <<<<"s", "a", "f", "e", "t", "y">>>>}

\* A chunk of document "doc1" as chunkText names it.
InputChunk(t, idx) ==
  [id |-> ChunkId(DocOne, idx), text |-> t, source |-> DocOne,
   metadata |-> [chunkIndex |-> idx]]

ChunkLists(texts, n) ==
  UNION {{[i \in 1..k |-> InputChunk(ts[i], i - 1)] : ts \in [1..k -> texts]} : k \in 0..n}

ChunkIdle ==
  /\ text = <<>>
  /\ chunkSize = 1
  /\ overlap = 0
  /\ start = 0
  /\ chunkIndex = 0
  /\ chunks = <<>>

RankInit ==
  /\ ChunkIdle
  /\ pc = "call"
  /\ \E list \in ChunkLists(RankTexts, MaxRankChunks), query \in RankQueries,
        topK \in (0 - MaxTopK)..MaxTopK, extraKeywords \in RankExtraKeywords :
       args = [fn |-> "rankAndPickTop", chunks |-> list, query |-> query,
               topK |-> topK, extraKeywords |-> extraKeywords]
  /\ result = NoResult
  /\ inv = NoInvocations

\* rankAndPickTop(chunks, query, topK, extraKeywords) runs and returns.
RankCall ==
  /\ pc = "call"
  /\ args.fn = "rankAndPickTop"
  /\ result' = [kind |-> "value",
                value |-> RankAndPickTop(args.chunks, args.query, args.topK,
                                         args.extraKeywords)]
  /\ args' = [args EXCEPT !.chunks = ChunksAfterRank(@, args.query, args.extraKeywords)]
  /\ pc' = "done"
  /\ UNCHANGED <<chunkVars, inv>>

RankNext == RankCall

RankSpec == RankInit /\ [][RankNext]_vars

----------------------------------------------------------------------------
(* Claims about rankAndPickTop *)

RankReturned == pc = "done" /\ args.fn = "rankAndPickTop"

\* A score strictly higher than another: NaN is not higher or lower than anything.
ScoreHigher(a, b) == ~a.nan /\ ~b.nan /\ a.v > b.v

\* The position in the input of the chunk with this id.
InputPos(id) == CHOOSE k \in 1..Len(args.chunks) : args.chunks[k].id = id

\* C7: the returned chunks are in non-increasing order of score, and returned
\* chunks of equal score keep the relative order they had in the input.
C7_SortedAndStable ==
  RankReturned =>
    \A i, j \in 1..Len(result.value) :
      i < j =>
        /\ ~ScoreHigher(result.value[j].score, result.value[i].score)
        /\ result.value[i].score = result.value[j].score =>
             InputPos(result.value[i].id) < InputPos(result.value[j].id)

\* A returned list that holds two chunks of equal score after a chunk of a
\* higher score that came later in the input.
C7_Witness ==
  /\ RankReturned
  /\ \E i, j, k \in 1..Len(result.value) :
       /\ i < j /\ j < k
       /\ ScoreHigher(result.value[i].score, result.value[j].score)
       /\ result.value[j].score = result.value[k].score
       /\ InputPos(result.value[i].id) > InputPos(result.value[k].id)

ReturnedIds == {result.value[i].id : i \in 1..Len(result.value)}

\* C8: for topK >= 1 the call returns exactly min(topK, n) chunks, each with a
\* score, and no chunk left out scores strictly higher than a returned one.
C8_TopKSelected ==
  (RankReturned /\ args.topK >= 1) =>
    /\ Len(result.value) = Min(args.topK, Len(args.chunks))
    /\ \A i \in 1..Len(result.value) :
         /\ "score" \in DOMAIN result.value[i]
         /\ result.value[i].score =
              ScoreChunkByQuery(args.chunks[InputPos(result.value[i].id)],
                                args.query, args.extraKeywords)
         /\ \A k \in 1..Len(args.chunks) :
              args.chunks[k].id \notin ReturnedIds =>
                ~ScoreHigher(ScoreChunkByQuery(args.chunks[k], args.query,
                                               args.extraKeywords),
                             result.value[i].score)

\* A call with more chunks than topK that left out a chunk of a strictly lower
\* score than a returned chunk that came after it in the input.
C8_Witness ==
  /\ RankReturned
  /\ args.topK >= 1
  /\ Len(args.chunks) > args.topK
  /\ Len(result.value) = args.topK
  /\ \E k \in 1..Len(args.chunks), i \in 1..Len(result.value) :
       /\ args.chunks[k].id \notin ReturnedIds
       /\ k < InputPos(result.value[i].id)
       /\ ScoreHigher(result.value[i].score,
                      ScoreChunkByQuery(args.chunks[k], args.query, args.extraKeywords))

\* C9 (as claimed): with topK <= 0 or no input chunk the call returns the
\* empty sequence.
C9_EmptyForNonPositiveTopK ==
  (RankReturned /\ (args.topK <= 0 \/ args.chunks = <<>>)) => result.value = <<>>

----------------------------------------------------------------------------
(* extractCitations *)

\* A value that is undefined: no JavaScript string is this sequence.
Undefined == <<"undefined">>

\* What if (x) and x || y read: undefined and "" are falsy.
Truthy(x) == x # Undefined /\ x # <<>>

OrElse(x, y) == IF Truthy(x) THEN x ELSE y

IsDigit(c) == c \in {"0", "1", "2", "3", "4", "5", "6", "7", "8", "9"}

\* The last index of the run of digits that starts at i (t[i] is a digit).
RECURSIVE DigitRunEnd(_, _)
DigitRunEnd(t, i) ==
  IF i < Len(t) /\ IsDigit(t[i + 1]) THEN DigitRunEnd(t, i + 1) ELSE i

LiteralAt(t, i, lit) ==
  /\ i + Len(lit) - 1 <= Len(t)
  /\ \A j \in 1..Len(lit) : t[i + j - 1] = lit[j]

\* text.match(/NCT\d+/g): the matches from index i on, [] for null.
NctAt(t, i) ==
  LiteralAt(t, i, <<"N", "C", "T">>) /\ i + 3 <= Len(t) /\ IsDigit(t[i + 3])

RECURSIVE NctMatchesFrom(_, _)
NctMatchesFrom(t, i) ==
  LET found == {j \in i..Len(t) : NctAt(t, j)}
  IN  IF found = {} THEN <<>>
      ELSE LET last == DigitRunEnd(t, MinOf(found) + 3)
           IN  <<SubSeq(t, MinOf(found), last)>> \o NctMatchesFrom(t, last + 1)

NctMatches(t) == NctMatchesFrom(t, 1)

\* A character of the class ["\s:]
IsRxcuiSeparator(c) == c = "\"" \/ c = ":" \/ IsWhitespace(c)

\* The last index of the run of separators that starts at i.
RECURSIVE SeparatorRunEnd(_, _)
SeparatorRunEnd(t, i) ==
  IF i < Len(t) /\ IsRxcuiSeparator(t[i + 1]) THEN SeparatorRunEnd(t, i + 1) ELSE i

\* text.match(/rxcui["\s:]+(\d+)/gi): the matches from index i on.
RxcuiAt(t, i) ==
  /\ i + 5 <= Len(t)
  /\ \A j \in 1..5 : LowerChar(t[i + j - 1]) = <<"r", "x", "c", "u", "i">>[j]
  /\ IsRxcuiSeparator(t[i + 5])
  /\ SeparatorRunEnd(t, i + 5) < Len(t)
  /\ IsDigit(t[SeparatorRunEnd(t, i + 5) + 1])

RECURSIVE RxcuiMatchesFrom(_, _)
RxcuiMatchesFrom(t, i) ==
  LET found == {j \in i..Len(t) : RxcuiAt(t, j)}
  IN  IF found = {} THEN <<>>
      ELSE LET last == DigitRunEnd(t, SeparatorRunEnd(t, MinOf(found) + 5) + 1)
           IN  <<SubSeq(t, MinOf(found), last)>> \o RxcuiMatchesFrom(t, last + 1)

RxcuiMatches(t) == RxcuiMatchesFrom(t, 1)

\* match.match(/\d+/)[0]: the first run of digits of a string that has one.
FirstDigits(m) ==
  LET i == CHOOSE k \in 1..Len(m) : IsDigit(m[k]) /\ \A j \in 1..(k - 1) : ~IsDigit(m[j])
  IN  SubSeq(m, i, DigitRunEnd(m, i))

\* Mutant: a citation whose id was seen replaces the entry of that id.
PushReplacing(acc, c) ==
  IF c.id \in acc.seenIds
  THEN [citations |-> [k \in 1..Len(acc.citations) |->
                         IF acc.citations[k].id = c.id THEN c ELSE acc.citations[k]],
        seenIds |-> acc.seenIds]
  ELSE [citations |-> Append(acc.citations, c), seenIds |-> acc.seenIds \cup {c.id}]

\* if (!seenIds.has(id)) { citations.push(c); seenIds.add(id); }
PushUnseen(acc, c) ==
  IF c.id \in acc.seenIds THEN acc
  ELSE [citations |-> Append(acc.citations, c), seenIds |-> acc.seenIds \cup {c.id}]

\* nctMatches.forEach(...)
RECURSIVE AddNctCitations(_, _)
AddNctCitations(acc, matches) ==
  IF matches = <<>> THEN acc
  ELSE AddNctCitations(PushUnseen(acc, [id |-> Head(matches), type |-> "clinical_trial"]),
                       Tail(matches))

\* rxcuiMatches.forEach(...)
RECURSIVE AddRxcuiCitations(_, _)
AddRxcuiCitations(acc, matches) ==
  IF matches = <<>> THEN acc
  ELSE AddRxcuiCitations(PushUnseen(acc, [id |-> FirstDigits(Head(matches)),
                                          type |-> "rxnorm"]),
                         Tail(matches))

MetadataField(chunk, k) ==
  IF k \in DOMAIN chunk.metadata THEN chunk.metadata[k] ELSE Undefined

\* chunk.metadata?.type || 'document' (a type is one of a few fixed tags, kept
\* as a whole string)
CitationType(chunk) ==
  IF "type" \in DOMAIN chunk.metadata /\ chunk.metadata.type # ""
  THEN chunk.metadata.type
  ELSE "document"

\* { id: chunk.source, type: chunk.metadata?.type || 'document', title: chunk.metadata?.title }
SourceCitation(chunk) ==
  [id    |-> chunk.source,
   type  |-> CitationType(chunk),
   title |-> MetadataField(chunk, "title")]

\* Mutant: the fallback citation is pushed without looking at seenIds.
AddSourceCitationUnchecked(acc, chunk) ==
  [citations |-> Append(acc.citations, SourceCitation(chunk)),
   seenIds |-> acc.seenIds \cup {chunk.source}]

\* if (!seenIds.has(chunk.source)) { ... }
AddSourceCitation(acc, chunk) == PushUnseen(acc, SourceCitation(chunk))

\* Mutant: the source is cited only for a chunk whose text names no identifier.
CiteChunkSourceWhenBare(acc, chunk) ==
  IF NctMatches(chunk.text) = <<>> /\ RxcuiMatches(chunk.text) = <<>>
  THEN AddSourceCitation(acc, chunk)
  ELSE AddRxcuiCitations(AddNctCitations(acc, NctMatches(chunk.text)),
                         RxcuiMatches(chunk.text))

\* The body of chunks.forEach(chunk => ...)
CiteChunk(acc, chunk) ==
  AddSourceCitation(
    AddRxcuiCitations(AddNctCitations(acc, NctMatches(chunk.text)),
                      RxcuiMatches(chunk.text)),
    chunk)

RECURSIVE CiteChunks(_, _)
CiteChunks(acc, list) ==
  IF list = <<>> THEN acc ELSE CiteChunks(CiteChunk(acc, Head(list)), Tail(list))

ExtractCitations(list) ==
      \* The citations pushed and the ids seen so far.
  LET NoCitations == [citations |-> <<>>, seenIds |-> {}]
  IN  CiteChunks(NoCitations, list).citations

----------------------------------------------------------------------------
(* The specification of the calls of extractCitations *)

\* Most chunks of one call.
MaxCiteChunks == 2

CiteChunkLists(n) ==
  LET CiteTexts ==
        LET TextTwoTrials == <<"N", "C", "T", "0", "1", " ", "a", "n", "d", " ", "N", "C", "T", "0", "1", " ", "r", "x", "c", "u", "i", ":", " ", "7">>
            TextTrialAndRxcui == <<"N", "C", "T", "1", "2", " ", "R", "x", "C", "U", "I", "\"", ":", "\"", "7", "\"">>
            TextRxcuiQuoted == <<"r", "x", "c", "u", "i", " ", "1", "2", " ", "r", "x", "c", "u", "i", ":", "x", " ", "N", "C", "T">>
            TextPlain == <<"n", "o", " ", "i", "d", "s">>
        IN  {TextTwoTrials, TextTrialAndRxcui, TextRxcuiQuoted, TextPlain}
      CiteSources ==
        LET SourceTrial == <<"N", "C", "T", "0", "1">>
            SourceNumber == <<"7">>
        IN  {DocOne, SourceTrial, SourceNumber}
      CiteMetadata ==
        LET TypeLabel == "fda_label"
        IN
        LET TitleAspirin == <<"A", "s", "p", "i", "r", "i", "n">>
        IN  {NoMetadata, [type |-> TypeLabel, title |-> TitleAspirin]}
  IN
  UNION {{[i \in 1..k |->
             [id |-> ChunkId(c[i][2], i - 1), text |-> c[i][1], source |-> c[i][2],
              metadata |-> c[i][3]]] :
            c \in [1..k -> CiteTexts \X CiteSources \X CiteMetadata]} : k \in 0..n}

CiteInit ==
  /\ ChunkIdle
  /\ pc = "call"
  /\ \E list \in CiteChunkLists(MaxCiteChunks) :
       args = [fn |-> "extractCitations", chunks |-> list]
  /\ result = NoResult
  /\ inv = NoInvocations

\* extractCitations(chunks) runs and returns.
CiteCall ==
  /\ pc = "call"
  /\ args.fn = "extractCitations"
  /\ result' = [kind |-> "value", value |-> ExtractCitations(args.chunks)]
  /\ pc' = "done"
  /\ UNCHANGED <<chunkVars, args, inv>>

CiteNext == CiteCall

CiteSpec == CiteInit /\ [][CiteNext]_vars

----------------------------------------------------------------------------
(* Claims about extractCitations *)

CiteReturned == pc = "done" /\ args.fn = "extractCitations"

\* The ids chunk c yields: its NCT matches, its rxcui numbers and its source.
YieldedIds(c) ==
  {NctMatches(c.text)[i] : i \in 1..Len(NctMatches(c.text))}
    \cup {FirstDigits(RxcuiMatches(c.text)[i]) : i \in 1..Len(RxcuiMatches(c.text))}
    \cup {c.source}

\* C6: no two entries of the list extractCitations returns have the same id,
\* whether the id is an NCT match, an rxcui number or a chunk's source.
C6_CitationIdsDistinct ==
  CiteReturned =>
    \A i, j \in 1..Len(result.value) :
      result.value[i].id = result.value[j].id => i = j

\* A call where an NCT id occurs twice, a chunk's source equals an rxcui number
\* found in the text of another chunk, and all three kinds of citation are
\* returned.
C6_Witness ==
  /\ CiteReturned
  /\ Len(args.chunks) = 2
  /\ Len(NctMatches(args.chunks[1].text)) = 2
  /\ NctMatches(args.chunks[1].text)[1] = NctMatches(args.chunks[1].text)[2]
  /\ RxcuiMatches(args.chunks[1].text) # <<>>
  /\ args.chunks[2].source \in YieldedIds(args.chunks[1]) \ {args.chunks[1].source}
  /\ {"clinical_trial", "rxnorm", "document"}
       \subseteq {result.value[i].type : i \in 1..Len(result.value)}
  /\ Len(result.value) >= 3

----------------------------------------------------------------------------
(* summarizeChunks *)
(* A character outside ASCII is written by its code unit, "u8B66": one     *)
(* element of the sequence, as it is one unit of a JavaScript string.     *)

Ellipsis ==
  <<".", ".", ".">>

DataSourceLabel ==
  <<"*", "*", "u6570", "u636E", "u6765", "u6E90", "*", "*", ":", " ">>

\* The default of maxLength.
DefaultMaxLength == 1200

\* The characters of a chunk shown by the source-specific generators.
PreviewCap == 200

\* The chunks shown by the source-specific generators.
PreviewCount == 3

\* The characters of a chunk shown by the generic generator.
GenericPreviewCap == 150

\* The chunks shown by the generic generator.
GenericPreviewCount == 5

SeqToSet(q) == {q[i] : i \in 1..Len(q)}

\* The header lines of the context fields that are set.
ContextHeader(drug, condition, query) ==
      \* `**药物**: ${drug}\n` and its siblings
  LET DrugLabel ==
        <<"*", "*", "u836F", "u7269", "*", "*", ":", " ">>
      ConditionLabel ==
        <<"*", "*", "u9002", "u5E94", "u75C7", "*", "*", ":", " ">>
      QueryLabel ==
        <<"*", "*", "u67E5", "u8BE2", "*", "*", ":", " ">>
  IN
  (IF Truthy(drug) THEN DrugLabel \o drug \o <<"\n">> ELSE <<>>)
    \o (IF Truthy(condition) THEN ConditionLabel \o condition \o <<"\n">> ELSE <<>>)
    \o (IF Truthy(query) THEN QueryLabel \o query \o <<"\n">> ELSE <<>>)

\* chunks.slice(0, count).forEach((chunk, idx) => `${idx + 1}. ${preview}...\n\n`)
RECURSIVE PreviewsFrom(_, _, _, _)
PreviewsFrom(list, idx, count, cap) ==
      \* s.replace(/\n/g, ' ')
  LET NewlinesToBlanks(s) == [i \in 1..Len(s) |-> IF s[i] = "\n" THEN " " ELSE s[i]]
  IN
  LET PreviewEnd ==
        <<".", ".", ".", "\n", "\n">>
  IN
  IF idx > Len(list) \/ idx > count THEN <<>>
  ELSE Digits(idx) \o <<".", " ">>
         \o NewlinesToBlanks(Slice(list[idx].text, 0, cap)) \o PreviewEnd
         \o PreviewsFrom(list, idx + 1, count, cap)

Previews(list, count, cap) == PreviewsFrom(list, 1, count, cap)

\* The number of chunks whose lower-cased text includes one of the keywords.
CountChunksWith(list, keywords) ==
  Cardinality({i \in 1..Len(list) :
                 LET lower == ToLowerCase(list[i].text)
                 IN  \E k \in keywords : Includes(lower, k)})

GenerateClinicalTrialsSummary(list, query, drug, condition) ==
  LET YesNo(b) ==
        LET Yes ==
              <<"u662F">>
            No ==
              <<"u5426">>
        IN  IF b THEN Yes ELSE No
  IN
      \* generateClinicalTrialsSummary
  LET TrialsTitle ==
        <<"#", "#", " ", "u4E34", "u5E8A", "u8BD5", "u9A8C", "u4E0D", "u826F", "u4E8B", "u4EF6",
          "u5206", "u6790", "\n", "\n">>
      TrialsFragments ==
        <<" ", "u4E2A", "u4E34", "u5E8A", "u8BD5", "u9A8C", "u7247", "u6BB5", "\n", "\n">>
      TrialsFindings ==
        <<"#", "#", "#", " ", "u5173", "u952E", "u53D1", "u73B0", "\n", "-", " ", "u6D89",
          "u53CA", "u7814", "u7A76", "u6570", "u91CF", ":", " ">>
      TrialsControl ==
        <<"\n", "-", " ", "u5305", "u542B", "u5BF9", "u7167", "u7EC4", "u6BD4", "u8F83", ":",
          " ">>
      TrialsAdverse ==
        <<"\n", "-", " ", "u4E0D", "u826F", "u4E8B", "u4EF6", "u76F8", "u5173", "u6027", ":",
          " ">>
      TrialsEvidence ==
        <<"\n", "\n", "#", "#", "#", " ", "u8BC1", "u636E", "u6458", "u8981", "\n">>
      TrialsAdviceHead ==
        <<"#", "#", "#", " ", "u5EFA", "u8BAE", "\n", "u57FA", "u4E8E", " ">>
      TrialsAdviceTail ==
        <<" ", "u4E2A", "u76F8", "u5173", "u7247", "u6BB5", "u7684", "u5206", "u6790", "uFF0C",
          "u5EFA", "u8BAE", "u8FDB", "u4E00", "u6B65", "u67E5", "u770B", "u5177", "u4F53",
          "u7814", "u7A76", "u8BE6", "u60C5", "u4EE5", "u83B7", "u5F97", "u5B8C", "u6574",
          "u7684", "u5B89", "u5168", "u6027", "u8BC4", "u4F30", "u3002">>
      \* The keywords the generators look for in a lower-cased chunk text.
      KwPlacebo == <<"p", "l", "a", "c", "e", "b", "o">>
      KwControl == <<"c", "o", "n", "t", "r", "o", "l">>
      AeKeywords ==
        <<<<"a", "d", "v", "e", "r", "s", "e">>,
          <<"s", "i", "d", "e", " ", "e", "f", "f", "e", "c", "t">>,
          <<"t", "o", "x", "i", "c", "i", "t", "y">>,
          <<"s", "a", "f", "e", "t", "y">>,
          <<"u4E0D", "u826F", "u4E8B", "u4EF6">>,
          <<"u526F", "u4F5C", "u7528">>>>
  IN
  LET studyIds == UNION {SeqToSet(NctMatches(list[i].text)) : i \in 1..Len(list)}
      hasControlComparison == CountChunksWith(list, {KwPlacebo, KwControl}) > 0
      adverseEvents ==
        {k \in SeqToSet(AeKeywords) : CountChunksWith(list, {ToLowerCase(k)}) > 0}
  IN  TrialsTitle \o ContextHeader(drug, condition, query)
        \o DataSourceLabel \o Digits(Len(list)) \o TrialsFragments
        \o TrialsFindings \o Digits(Cardinality(studyIds))
        \o TrialsControl \o YesNo(hasControlComparison)
        \o TrialsAdverse \o YesNo(adverseEvents # {})
        \o TrialsEvidence \o Previews(list, PreviewCount, PreviewCap)
        \o TrialsAdviceHead \o Digits(Len(list)) \o TrialsAdviceTail

GenerateOpenFDASummary(list, query, drug, condition) ==
      \* generateOpenFDASummary
  LET FdaTitle ==
        <<"#", "#", " ", "F", "D", "A", " ", "u836F", "u7269", "u6807", "u7B7E", "u5B89",
          "u5168", "u4FE1", "u606F", "\n", "\n">>
      FdaFragments ==
        <<" ", "u4E2A", " ", "F", "D", "A", " ", "u6807", "u7B7E", "u7247", "u6BB5", "\n", "\n">>
      FdaWarnings ==
        <<"#", "#", "#", " ", "u5B89", "u5168", "u4FE1", "u606F", "u5206", "u7C7B", "\n", "-",
          " ", "u8B66", "u544A", "u4FE1", "u606F", ":", " ">>
      FdaAdverse ==
        <<" ", "u6761", "\n", "-", " ", "u4E0D", "u826F", "u53CD", "u5E94", ":", " ">>
      FdaContra ==
        <<" ", "u6761", "\n", "-", " ", "u7981", "u5FCC", "u75C7", ":", " ">>
      FdaBoxed ==
        <<" ", "u6761", "\n", "-", " ", "u9ED1", "u6846", "u8B66", "u544A", ":", " ">>
      FdaImportant ==
        <<" ", "u6761", "\n", "\n", "#", "#", "#", " ", "u91CD", "u8981", "u5B89", "u5168",
          "u4FE1", "u606F", "\n">>
      KwWarning == <<"w", "a", "r", "n", "i", "n", "g">>
      KwWarningZh == <<"u8B66", "u544A">>
      KwAdverse == <<"a", "d", "v", "e", "r", "s", "e">>
      KwAdverseZh == <<"u4E0D", "u826F", "u53CD", "u5E94">>
      KwContraindication == <<"c", "o", "n", "t", "r", "a", "i", "n", "d", "i", "c", "a", "t", "i", "o", "n">>
      KwContraindicationZh == <<"u7981", "u5FCC">>
      KwBoxed == <<"b", "o", "x", "e", "d">>
      KwBoxedZh == <<"u9ED1", "u6846">>
  IN
  FdaTitle \o ContextHeader(drug, condition, query)
    \o DataSourceLabel \o Digits(Len(list)) \o FdaFragments
    \o FdaWarnings \o Digits(CountChunksWith(list, {KwWarning, KwWarningZh}))
    \o FdaAdverse \o Digits(CountChunksWith(list, {KwAdverse, KwAdverseZh}))
    \o FdaContra
    \o Digits(CountChunksWith(list, {KwContraindication, KwContraindicationZh}))
    \o FdaBoxed \o Digits(CountChunksWith(list, {KwBoxed, KwBoxedZh}))
    \o FdaImportant \o Previews(list, PreviewCount, PreviewCap)

\* /[A-Z]\d{2}[A-Z]{2}\d{2}/ at index i
AtcAt(t, i) ==
  LET IsUpper(c) == c \in UpperSet
  IN
  /\ i + 6 <= Len(t)
  /\ IsUpper(t[i]) /\ IsDigit(t[i + 1]) /\ IsDigit(t[i + 2])
  /\ IsUpper(t[i + 3]) /\ IsUpper(t[i + 4])
  /\ IsDigit(t[i + 5]) /\ IsDigit(t[i + 6])

\* text.match(/[A-Z]\d{2}[A-Z]{2}\d{2}/g): the matches from index i on.
RECURSIVE AtcMatchesFrom(_, _)
AtcMatchesFrom(t, i) ==
  LET found == {j \in i..Len(t) : AtcAt(t, j)}
  IN  IF found = {} THEN <<>>
      ELSE <<SubSeq(t, MinOf(found), MinOf(found) + 6)>>
             \o AtcMatchesFrom(t, MinOf(found) + 7)

GenerateRxNavSummary(list, query, drug, condition) ==
      \* generateRxNavSummary
  LET RxTitle ==
        <<"#", "#", " ", "R", "x", "N", "a", "v", " ", "u836F", "u7269", "u672F", "u8BED",
          "u4FE1", "u606F", "\n", "\n">>
      RxFragments ==
        <<" ", "u4E2A", " ", "R", "x", "N", "a", "v", " ", "u672F", "u8BED", "u7247", "u6BB5",
          "\n", "\n">>
      RxRxcui ==
        <<"#", "#", "#", " ", "u672F", "u8BED", "u4FE1", "u606F", "u7EDF", "u8BA1", "\n", "-",
          " ", "R", "x", "C", "U", "I", " ", "u6807", "u8BC6", "u7B26", ":", " ">>
      RxAtc ==
        <<" ", "u4E2A", "\n", "-", " ", "A", "T", "C", " ", "u5206", "u7C7B", "u4EE3", "u7801",
          ":", " ">>
      RxDetails ==
        <<" ", "u4E2A", "\n", "\n", "#", "#", "#", " ", "u836F", "u7269", "u672F", "u8BED",
          "u8BE6", "u60C5", "\n">>
  IN
  LET rxcuis ==
        UNION {{FirstDigits(m) : m \in SeqToSet(RxcuiMatches(list[i].text))} :
                 i \in 1..Len(list)}
      atcCodes == UNION {SeqToSet(AtcMatchesFrom(list[i].text, 1)) : i \in 1..Len(list)}
  IN  RxTitle \o ContextHeader(drug, condition, query)
        \o DataSourceLabel \o Digits(Len(list)) \o RxFragments
        \o RxRxcui \o Digits(Cardinality(rxcuis))
        \o RxAtc \o Digits(Cardinality(atcCodes))
        \o RxDetails \o Previews(list, PreviewCount, PreviewCap)

GenerateGenericSummary(list, query, drug, condition) ==
      \* generateGenericSummary
  LET GenericTitle ==
        <<"#", "#", " ", "u4FE1", "u606F", "u6458", "u8981", "\n", "\n">>
      GenericFragments ==
        <<"*", "*", "u76F8", "u5173", "u7247", "u6BB5", "*", "*", ":", " ">>
      GenericContent ==
        <<" ", "u4E2A", "\n", "\n", "#", "#", "#", " ", "u4E3B", "u8981", "u5185", "u5BB9", "\n">>
  IN
  GenericTitle \o ContextHeader(drug, condition, query)
    \o GenericFragments \o Digits(Len(list)) \o GenericContent
    \o Previews(list, GenericPreviewCount, GenericPreviewCap)

\* A field of the options object, undefined when it is not set.
Option(options, k) == IF k \in DOMAIN options THEN options[k] ELSE Undefined

\* const { ..., maxLength = 1200 } = options
MaxLengthOf(options) ==
  IF "maxLength" \in DOMAIN options THEN options.maxLength ELSE DefaultMaxLength

\* The switch on source.
GenerateSummary(list, source, query, drug, condition) ==
  CASE source = "clinicaltrials" -> GenerateClinicalTrialsSummary(list, query, drug, condition)
    [] source = "openfda" -> GenerateOpenFDASummary(list, query, drug, condition)
    [] source = "rxnav" -> GenerateRxNavSummary(list, query, drug, condition)
    [] OTHER -> GenerateGenericSummary(list, query, drug, condition)

SummarizeChunks(list, options) ==
      \* if (summary.length > maxLength) summary = summary.slice(0, maxLength - 3) + '...'
  LET LengthControl(summary, maxLength) ==
        IF Len(summary) > maxLength THEN Slice(summary, 0, maxLength - 3) \o Ellipsis
        ELSE summary
  IN
      \* `未找到与查询相关的信息。查询: ${...}`
  LET NothingFound ==
        <<"u672A", "u627E", "u5230", "u4E0E", "u67E5", "u8BE2", "u76F8", "u5173", "u7684",
          "u4FE1", "u606F", "u3002", "u67E5", "u8BE2", ":", " ">>
      NotApplicable ==
        <<"N", "/", "A">>
  IN
  LET query == Option(options, "query")
      drug == Option(options, "drug")
      condition == Option(options, "condition")
  IN  IF Len(list) = 0
      THEN NothingFound \o OrElse(query, OrElse(drug, OrElse(condition, NotApplicable)))
      ELSE LengthControl(GenerateSummary(list, options.source, query, drug, condition),
                         MaxLengthOf(options))

----------------------------------------------------------------------------
(* The specification of the calls of summarizeChunks *)

\* Most chunks of one call.
MaxSummChunks == 4

\* The length of the long chunk text: more than a preview shows.
LongTextLen == 205

DrugAspirin == <<"a", "s", "p", "i", "r", "i", "n">>

ConditionFever == <<"f", "e", "v", "e", "r">>

SummInit ==
  LET SummTexts ==
        LET TextTrialControlled == <<"N", "C", "T", "0", "1", " ", "p", "l", "a", "c", "e", "b", "o", "\n", "a", "d", "v", "e", "r", "s", "e", " ", "A", "1", "0", "B", "A", "0", "2", " ", "r", "x", "c", "u", "i", ":", " ", "7">>
            TextLong == [i \in 1..LongTextLen |-> "a"]
        IN  {TextTrialControlled, TextLong}
      SummOptions ==
        LET SummSources == {"clinicaltrials", "openfda", "rxnav", "pubmed"}
            \* The values of maxLength a call sets.
            SummMaxLengths == {2, 10, 1200}
        IN
        UNION {{[source |-> src] @@ ctx,
                [source |-> src] @@ ctx @@ [maxLength |-> ml]} :
                 src \in SummSources, ml \in SummMaxLengths,
                 ctx \in {q @@ d @@ c :
                            q \in {<<>>, [query |-> QueryWarning]},
                            d \in {<<>>, [drug |-> DrugAspirin]},
                            c \in {<<>>, [condition |-> ConditionFever]}}}
  IN
  /\ ChunkIdle
  /\ pc = "call"
  /\ \E list \in ChunkLists(SummTexts, MaxSummChunks), options \in SummOptions :
       args = [fn |-> "summarizeChunks", chunks |-> list, options |-> options]
  /\ result = NoResult
  /\ inv = NoInvocations

\* summarizeChunks(chunks, options) runs and returns.
SummCall ==
  /\ pc = "call"
  /\ args.fn = "summarizeChunks"
  /\ result' = [kind |-> "value", value |-> SummarizeChunks(args.chunks, args.options)]
  /\ pc' = "done"
  /\ UNCHANGED <<chunkVars, args, inv>>

SummNext == SummCall

SummSpec == SummInit /\ [][SummNext]_vars

----------------------------------------------------------------------------
(* Claims about summarizeChunks *)

SummReturned == pc = "done" /\ args.fn = "summarizeChunks"

\* C5 (as claimed): for every chunk sequence, the empty one included, and every
\* source, context and maxLength, the returned string is at most maxLength long.
C5_SummaryWithinMaxLength ==
  SummReturned => Len(result.value) <= MaxLengthOf(args.options)

----------------------------------------------------------------------------
(* ae_pipeline_rag: the tool call handler and aePipelineRag *)

\* AEPipelineRAGParamsSchema
TopKMin == 1

TopKMax == 10

TopKDefault == 5

LimitMin == 1

LimitMax == 100

LimitDefault == 50

\* The arguments of chunkText, summarizeChunks and the preview cap in aePipelineRag.
LabelChunkSize == 1000

LabelOverlap == 200

SummaryMaxLength == 1200

TopChunkTextCap == 1200

\* array.join(sep)
RECURSIVE Join(_, _)
Join(items, sep) ==
  IF items = <<>> THEN <<>>
  ELSE IF Len(items) = 1 THEN items[1]
       ELSE items[1] \o sep \o Join(Tail(items), sep)

\* array.filter(Boolean)
RECURSIVE FilterTruthy(_)
FilterTruthy(items) ==
  IF items = <<>> THEN <<>>
  ELSE (IF Truthy(Head(items)) THEN <<Head(items)>> ELSE <<>>) \o FilterTruthy(Tail(items))

\* The JSON values given as top_k and filters.limit: a number, held in tenths
\* (25 is 2.5), or a string.
NumberValue(tenths) == [json |-> "number", tenths |-> tenths]

StringValue(str) == [json |-> "string", str |-> str]

\* The value of a string of decimal digits.
RECURSIVE DecimalValue(_)
DecimalValue(digits) ==
  IF digits = <<>> THEN 0
  ELSE 10 * DecimalValue(SubSeq(digits, 1, Len(digits) - 1))
         + (CHOOSE d \in 0..9 : Digits(d) = <<digits[Len(digits)]>>)

\* z.coerce.number(): Number(value), in tenths. A blank string is 0, a string
\* of digits its value, and any other string of the model (none has a sign, a
\* point or an exponent) is NaN.
ToNumber(value) ==
  IF value.json = "number" THEN [nan |-> FALSE, tenths |-> value.tenths]
  ELSE IF \A k \in 1..Len(Trim(value.str)) : IsDigit(Trim(value.str)[k])
       THEN [nan |-> FALSE, tenths |-> 10 * DecimalValue(Trim(value.str))]
       ELSE [nan |-> TRUE, tenths |-> 0]

\* z.coerce.number().int().min(lo).max(hi)
IntegerWithin(value, lo, hi) ==
  /\ ~ToNumber(value).nan
  /\ ToNumber(value).tenths % 10 = 0
  /\ ToNumber(value).tenths \div 10 \in lo..hi

\* Mutant: the arguments are handed to aePipelineRag as they come.
AcceptsAnything(raw) == TRUE

\* AEPipelineRAGParamsSchema.parse(args): whether it accepts the arguments.
\* (The arguments of the model carry strings or nothing in query, drug and
\* condition.)
SchemaAccepts(raw) ==
  /\ "top_k" \in DOMAIN raw => IntegerWithin(raw.top_k, TopKMin, TopKMax)
  /\ ("filters" \in DOMAIN raw /\ "limit" \in DOMAIN raw.filters) =>
       IntegerWithin(raw.filters.limit, LimitMin, LimitMax)

\* The parsed parameters, with the defaults of the schema.
ParsedParams(raw) ==
  [query     |-> Option(raw, "query"),
   drug      |-> Option(raw, "drug"),
   condition |-> Option(raw, "condition"),
   top_k     |-> IF "top_k" \in DOMAIN raw THEN ToNumber(raw.top_k).tenths \div 10
                 ELSE TopKDefault,
   filters   |-> [limit |-> IF "filters" \in DOMAIN raw /\ "limit" \in DOMAIN raw.filters
                            THEN ToNumber(raw.filters.limit).tenths \div 10
                            ELSE LimitDefault]]

And ==
  <<" ", "A", "N", "D", " ">>

DrugTerm(drug) ==
      \* `openfda.brand_name:"${drug}" OR openfda.generic_name:"${drug}" OR ...`
  LET BrandNameField ==
        <<"o", "p", "e", "n", "f", "d", "a", ".", "b", "r", "a", "n", "d", "_", "n", "a", "m",
          "e", ":", "\"">>
      GenericNameField ==
        <<"\"", " ", "O", "R", " ", "o", "p", "e", "n", "f", "d", "a", ".", "g", "e", "n", "e",
          "r", "i", "c", "_", "n", "a", "m", "e", ":", "\"">>
      SubstanceNameField ==
        <<"\"", " ", "O", "R", " ", "o", "p", "e", "n", "f", "d", "a", ".", "s", "u", "b", "s",
          "t", "a", "n", "c", "e", "_", "n", "a", "m", "e", ":", "\"">>
  IN
  BrandNameField \o drug \o GenericNameField \o drug \o SubstanceNameField \o drug
    \o <<"\"">>

\* The searchTerms array.
SearchTerms(params) ==
  LET ConditionTerm(condition) ==
        LET IndicationsField ==
              <<"i", "n", "d", "i", "c", "a", "t", "i", "o", "n", "s", "_", "a", "n", "d", "_", "u",
                "s", "a", "g", "e", ":", "\"">>
        IN  IndicationsField \o condition \o <<"\"">>
  IN
      \* params.query.split(/\s+/).filter(w => w.length > 2)
  LET QueryWords(query) == LongerThanTwo(SplitWhitespace(query))
  IN
  (IF Truthy(params.drug) THEN <<DrugTerm(params.drug)>> ELSE <<>>)
    \o (IF Truthy(params.condition) THEN <<ConditionTerm(params.condition)>> ELSE <<>>)
    \o (IF Truthy(params.query) /\ QueryWords(params.query) # <<>>
        THEN <<Join(QueryWords(params.query), And)>> ELSE <<>>)

\* Mutant: the request is prepared whenever the parameters were parsed.
AlwaysSearch(params) == TRUE

\* Whether searchParams.search is set: else the call returns the prompt bundle.
HasSearch(params) == SearchTerms(params) # <<>> \/ Truthy(params.drug)

\* searchParams as handed to makeRequest.
SearchParams(params) ==
  [search |-> IF SearchTerms(params) # <<>> THEN Join(SearchTerms(params), And)
              ELSE params.drug,
   limit  |-> IF params.filters.limit # 0 THEN params.filters.limit ELSE LimitDefault,
   skip   |-> 0]

PromptSummary ==
  <<"u8BF7", "u63D0", "u4F9B", "u836F", "u7269", "u540D", "u79F0", "u6216", "u5177",
    "u4F53", "u67E5", "u8BE2", "u6761", "u4EF6", "u4EE5", "u83B7", "u53D6", " ", "F", "D",
    "A", " ", "u6807", "u7B7E", "u4FE1", "u606F", "u3002">>

NoMatchSummary ==
  <<"u672A", "u627E", "u5230", "u5339", "u914D", "u7684", " ", "F", "D", "A", " ", "u836F",
    "u7269", "u6807", "u7B7E", "u6570", "u636E", "u3002", "u8BF7", "u5C1D", "u8BD5",
    "u8C03", "u6574", "u641C", "u7D22", "u6761", "u4EF6", "u3002">>

\* The RAGResult of the two short cuts.
EmptyBundle(params, summary) ==
  [source |-> "openfda", query |-> params.query, drug |-> params.drug,
   condition |-> params.condition, top_chunks |-> <<>>, summary |-> summary,
   citations |-> <<>>]

\* The sections extractLabelText reads, in its order, with their headers.
LabelSections ==
  LET Header1 ==
        <<"=", "=", "=", " ", "I", "N", "D", "I", "C", "A", "T", "I", "O", "N", "S", " ", "A",
          "N", "D", " ", "U", "S", "A", "G", "E", " ", "=", "=", "=">>
      Header2 ==
        <<"=", "=", "=", " ", "D", "O", "S", "A", "G", "E", " ", "A", "N", "D", " ", "A", "D",
          "M", "I", "N", "I", "S", "T", "R", "A", "T", "I", "O", "N", " ", "=", "=", "=">>
      Header3 ==
        <<"=", "=", "=", " ", "C", "O", "N", "T", "R", "A", "I", "N", "D", "I", "C", "A", "T",
          "I", "O", "N", "S", " ", "=", "=", "=">>
      Header4 ==
        <<"=", "=", "=", " ", "W", "A", "R", "N", "I", "N", "G", "S", " ", "=", "=", "=">>
      Header5 ==
        <<"=", "=", "=", " ", "B", "O", "X", "E", "D", " ", "W", "A", "R", "N", "I", "N", "G",
          " ", "=", "=", "=">>
      Header6 ==
        <<"=", "=", "=", " ", "P", "R", "E", "C", "A", "U", "T", "I", "O", "N", "S", " ", "=",
          "=", "=">>
      Header7 ==
        <<"=", "=", "=", " ", "A", "D", "V", "E", "R", "S", "E", " ", "R", "E", "A", "C", "T",
          "I", "O", "N", "S", " ", "=", "=", "=">>
      Header8 ==
        <<"=", "=", "=", " ", "D", "R", "U", "G", " ", "I", "N", "T", "E", "R", "A", "C", "T",
          "I", "O", "N", "S", " ", "=", "=", "=">>
  IN
  <<<<"indications_and_usage", Header1>>,
    <<"dosage_and_administration", Header2>>,
    <<"contraindications", Header3>>,
    <<"warnings", Header4>>,
    <<"boxed_warning", Header5>>,
    <<"precautions", Header6>>,
    <<"adverse_reactions", Header7>>,
    <<"drug_interactions", Header8>>>>

\* A section of a label is [isArray, items]: an array of strings, or, with
\* isArray FALSE, the one string items[1].
SectionTruthy(label, k) ==
  k \in DOMAIN label /\ (label[k].isArray \/ label[k].items[1] # <<>>)

\* label.openfda?.[k]?.[0]
OpenFdaFirst(label, k) ==
  IF "openfda" \in DOMAIN label /\ k \in DOMAIN label.openfda /\ label.openfda[k] # <<>>
  THEN label.openfda[k][1]
  ELSE Undefined

LabelDrugName(label) ==
  LET UnknownDrug ==
        <<"U", "n", "k", "n", "o", "w", "n", " ", "D", "r", "u", "g">>
  IN
  OrElse(OpenFdaFirst(label, "brand_name"),
         OrElse(OpenFdaFirst(label, "generic_name"), UnknownDrug))

\* The textParts a section adds.
SectionParts(label, section) ==
  IF SectionTruthy(label, section[1])
  THEN <<section[2],
         IF label[section[1]].isArray THEN Join(label[section[1]].items, <<"\n">>)
         ELSE label[section[1]].items[1]>>
  ELSE <<>>

RECURSIVE AllSectionParts(_, _)
AllSectionParts(label, k) ==
  IF k > Len(LabelSections) THEN <<>>
  ELSE SectionParts(label, LabelSections[k]) \o AllSectionParts(label, k + 1)

ExtractLabelText(label) ==
  LET DrugPrefix ==
        <<"D", "r", "u", "g", ":", " ">>
      ManufacturerPrefix ==
        <<"M", "a", "n", "u", "f", "a", "c", "t", "u", "r", "e", "r", ":", " ">>
      UnknownManufacturer ==
        <<"U", "n", "k", "n", "o", "w", "n", " ", "M", "a", "n", "u", "f", "a", "c", "t", "u",
          "r", "e", "r">>
  IN
  Join(<<DrugPrefix \o LabelDrugName(label),
         ManufacturerPrefix
           \o OrElse(OpenFdaFirst(label, "manufacturer_name"), UnknownManufacturer)>>
         \o AllSectionParts(label, 1),
       <<"\n", "\n">>)

\* label.id || label.openfda?.spl_id?.[0] || `label_${Math.random()...}`
LabelId(label, random) ==
  LET LabelPrefix ==
        <<"l", "a", "b", "e", "l", "_">>
  IN
  OrElse(Option(label, "id"), OrElse(OpenFdaFirst(label, "spl_id"), LabelPrefix \o random))

\* The metadata given to chunkText.
LabelMetadata(label) ==
  [drugName |-> LabelDrugName(label),
   manufacturer |-> OpenFdaFirst(label, "manufacturer_name"),
   type |-> "fda_label",
   hasWarnings |-> SectionTruthy(label, "warnings") \/ SectionTruthy(label, "boxed_warning"),
   hasAdverseReactions |-> SectionTruthy(label, "adverse_reactions")]

\* The chunks one label adds to allChunks.
LabelChunks(label, random) ==
  IF Len(Trim(ExtractLabelText(label))) > 0
  THEN ChunkTextOf(ExtractLabelText(label), LabelChunkSize, LabelOverlap,
                   LabelId(label, random), LabelMetadata(label))
  ELSE <<>>

\* allChunks after the loop over data.results.
RECURSIVE AllChunks(_, _, _)
AllChunks(results, randoms, k) ==
  IF k > Len(results) THEN <<>>
  ELSE LabelChunks(results[k], randoms[k]) \o AllChunks(results, randoms, k + 1)

\* [params.query, params.drug, params.condition].filter(Boolean).join(' ')
QueryText(params) ==
  Join(FilterTruthy(<<params.query, params.drug, params.condition>>), <<" ">>)

ExtraKeywords ==
  <<<<"a", "d", "v", "e", "r", "s", "e", " ", "r", "e", "a", "c", "t", "i", "o", "n", "s">>,
    <<"s", "i", "d", "e", " ", "e", "f", "f", "e", "c", "t", "s">>,
    <<"w", "a", "r", "n", "i", "n", "g", "s">>,
    <<"c", "o", "n", "t", "r", "a", "i", "n", "d", "i", "c", "a", "t", "i", "o", "n", "s">>,
    <<"b", "o", "x", "e", "d", " ", "w", "a", "r", "n", "i", "n", "g">>,
    <<"p", "r", "e", "c", "a", "u", "t", "i", "o", "n", "s">>,
    <<"s", "a", "f", "e", "t", "y">>,
    <<"t", "o", "x", "i", "c", "i", "t", "y">>,
    <<"u4E0D", "u826F", "u53CD", "u5E94">>,
    <<"u526F", "u4F5C", "u7528">>,
    <<"u8B66", "u544A">>,
    <<"u7981", "u5FCC", "u75C7">>,
    <<"u5B89", "u5168", "u6027">>>>

\* Mutant: the citations are extracted from allChunks.
CitedPool(topChunks, pool) == pool

\* The chunks given to extractCitations: extractCitations(topChunks).
CitedChunks(topChunks, pool) == topChunks

\* Steps 3 to 8 of aePipelineRag: the RAGResult for a non-empty data.results.
RagBundle(params, results, randoms) ==
      \* top_chunks: each chunk with its text cut to the preview cap.
  LET CapTexts(top) ==
        [i \in 1..Len(top) |->
           [top[i] EXCEPT !.text = IF Len(@) > TopChunkTextCap
                                   THEN Slice(@, 0, TopChunkTextCap) \o Ellipsis ELSE @]]
  IN
  LET topChunks == RankAndPickTop(AllChunks(results, randoms, 1), QueryText(params),
                                  params.top_k, ExtraKeywords)
  IN  [source |-> "openfda", query |-> params.query, drug |-> params.drug,
       condition |-> params.condition,
       top_chunks |-> CapTexts(topChunks),
       summary |-> SummarizeChunks(topChunks,
                                   [source |-> "openfda", query |-> params.query,
                                    drug |-> params.drug, condition |-> params.condition,
                                    maxLength |-> SummaryMaxLength]),
       citations |-> ExtractCitations(CitedChunks(topChunks,
                                                  AllChunks(results, randoms, 1)))]

\* Mutant: only the presence of data.results is tested, not its length.
ResultsFieldPresent(body) == "results" \in DOMAIN body

\* A response body of the OpenFDA API: data.results, or no results field.
HasResults(body) == "results" \in DOMAIN body /\ body.results # <<>>

\* What aePipelineRag returns once makeRequest has resolved with body.
BundleFor(params, body, randoms) ==
  IF HasResults(body) THEN RagBundle(params, body.results, randoms)
  ELSE EmptyBundle(params, NoMatchSummary)

\* Whether scoring a non-empty pool with this query throws.
ScoringThrows(pool, query, extraKeywords) ==
      \* new RegExp(keyword, 'g') throws a SyntaxError on a keyword that is no
      \* regular expression: of the characters of the model's queries, "(" makes one
      \* (an unterminated group).
  LET RegexCompiles(keyword) == \A i \in 1..Len(keyword) : keyword[i] # "("
  IN
  /\ pool # <<>>
  /\ \E i \in 1..Len(AllKeywords(query, extraKeywords)) :
       ~RegexCompiles(AllKeywords(query, extraKeywords)[i])

\* Whether steps 3 to 8 throw for this response.
PipelineThrows(params, body, randoms) ==
  /\ HasResults(body)
  /\ ScoringThrows(AllChunks(body.results, randoms, 1), QueryText(params), ExtraKeywords)

----------------------------------------------------------------------------
(* The specification of the ae_pipeline_rag tool calls *)

\* The tool calls that may be in flight together.
Invocations == {1, 2}

QueryBadRegex ==
  <<"(", "b", "l", "e", "e", "d", "i", "n", "g">>

\* The arguments of the tool calls of the model.
RagArgs ==
  LET QueryShortWords ==
        <<"a", "b">>
      QueryBleeding ==
        <<"b", "l", "e", "e", "d", "i", "n", "g", " ", "r", "i", "s", "k">>
  IN
  {q @@ d @@ k :
     q \in {<<>>, [query |-> QueryShortWords], [query |-> QueryBleeding]},
     d \in {<<>>, [drug |-> DrugAspirin]},
     k \in {<<>>, [top_k |-> NumberValue(10)]}}
    \cup {[condition |-> ConditionFever],
          [query |-> <<>>],
          [query |-> QueryBadRegex],
          [drug |-> DrugAspirin, top_k |-> NumberValue(0)],
          [drug |-> DrugAspirin, top_k |-> NumberValue(110)],
          [drug |-> DrugAspirin, top_k |-> NumberValue(100)],
          [drug |-> DrugAspirin, top_k |-> NumberValue(15)],
          [drug |-> DrugAspirin, top_k |-> StringValue(<<"2">>)],
          [drug |-> DrugAspirin, top_k |-> StringValue(<<"1", "1">>)],
          [drug |-> DrugAspirin, top_k |-> StringValue(<<"x">>)],
          [top_k |-> NumberValue(0)],
          [drug |-> DrugAspirin, filters |-> [limit |-> NumberValue(1010)]],
          [drug |-> DrugAspirin, filters |-> [limit |-> NumberValue(0)]],
          [drug |-> DrugAspirin, filters |-> [limit |-> NumberValue(1000)]],
          [drug |-> DrugAspirin, filters |-> [limit |-> NumberValue(50)]],
          [drug |-> DrugAspirin, filters |-> <<>>]}

\* A label with an id, two array sections and a trial id in its warnings.
LabelAspirin ==
  LET Arr(items) == [isArray |-> TRUE, items |-> items]
  IN
  [id |-> <<"A", "1">>,
   openfda |-> [brand_name |-> <<<<"A", "s", "p", "i", "r", "i", "n">>>>,
                manufacturer_name |-> <<<<"B", "a", "y", "e", "r">>>>],
   warnings |-> Arr(<<<<"B", "l", "e", "e", "d", "i", "n", "g", " ", "r", "i", "s", "k", ".", " ", "S", "e", "e", " ", "N", "C", "T", "0", "1">>>>),
   adverse_reactions |-> Arr(<<<<"N", "a", "u", "s", "e", "a">>, <<"R", "a", "s", "h">>>>)]

\* The n-th of a run of labels that differ in their id.
LabelNumbered(n) ==
  [id |-> <<"L">> \o Digits(n),
   openfda |-> [generic_name |-> <<<<"w", "a", "r", "f", "a", "r", "i", "n">>>>],
   warnings |-> [isArray |-> FALSE, items |-> <<<<"B", "l", "e", "e", "d", "i", "n", "g", " ", "w", "a", "r", "n", "i", "n", "g", " ">> \o Digits(n)>>]]

\* More labels than the default of top_k.
MaxLabels == 6

\* The length of the warnings of the long label: more than one chunk.
LongLabelLen == 1100

\* The bodies makeRequest resolves with.
ResponseBodies ==
      \* A label whose text is cut into several chunks, each about safety: its
      \* warnings repeat a sentence of SentenceLen characters.
  LET LabelLong ==
        LET SentenceLen == 250
            Sentence == [k \in 1..SentenceLen |->
                           IF k <= 6 THEN <<"s", "a", "f", "e", "t", "y">>[k]
                           ELSE IF k = SentenceLen - 1 THEN "."
                           ELSE IF k = 7 \/ k = SentenceLen THEN " "
                           ELSE "x"]
        IN  [id |-> <<"B", "2">>,
             openfda |-> [generic_name |-> <<<<"h", "e", "p", "a", "r", "i", "n">>>>],
             warnings |-> [isArray |-> FALSE,
                           items |-> <<[k \in 1..LongLabelLen |->
                                          Sentence[((k - 1) % SentenceLen) + 1]]>>]]
  IN
      \* A label without id and spl_id: its id is drawn with Math.random().
  LET LabelIbuprofen ==
        LET Str(str) == [isArray |-> FALSE, items |-> <<str>>]
        IN
        [openfda |-> [generic_name |-> <<<<"i", "b", "u", "p", "r", "o", "f", "e", "n">>>>],
         boxed_warning |-> Str(<<"B", "o", "x", "e", "d", " ", "w", "a", "r", "n", "i", "n", "g", ":", " ", "b", "l", "e", "e", "d", "i", "n", "g">>)]
      \* A label with no section at all.
      LabelBare == [openfda |-> [spl_id |-> <<<<"S", "9">>>>]]
  IN
  {<<>>,
   [results |-> [n \in 1..MaxLabels |-> LabelNumbered(n)]],
   [results |-> <<>>],
   [results |-> <<LabelAspirin>>],
   [results |-> <<LabelIbuprofen, LabelAspirin>>],
   [results |-> <<LabelBare, LabelAspirin>>],
   [results |-> <<LabelBare, LabelLong>>]}

\* The draws of Math.random() for the labels of a body: one for each label
\* whose id is drawn, and <<>> (no draw) for the others.
RandomDraws(body) ==
      \* Whether the id of a label is drawn: it has neither id nor openfda.spl_id.
  LET NeedsRandomId(label) ==
        ~Truthy(Option(label, "id")) /\ ~Truthy(OpenFdaFirst(label, "spl_id"))
  IN
      \* What Math.random().toString(36).substr(2, 9) may return.
  LET RandomSuffixes == {<<"k", "3", "x", "9", "q", "2", "m", "1", "z">>, <<"p", "0", "w", "8", "e", "7", "r", "6", "t">>}
  IN
  IF "results" \in DOMAIN body
  THEN {r \in [1..Len(body.results) -> RandomSuffixes \cup {<<>>}] :
          \A k \in 1..Len(body.results) :
            r[k] = <<>> <=> ~NeedsRandomId(body.results[k])}
  ELSE {<<>>}

Init ==
      \* The position of a call that has not been made. (inFlight is history: the
      \* calls that were awaiting their fetch when this call began its own.)
  LET IdleInvocation ==
        [pc |-> "idle", raw |-> <<>>, requests |-> <<>>, responses |-> <<>>,
         randoms |-> <<>>, calls |-> <<>>, outcome |-> "none", bundle |-> <<>>,
         error |-> "none", inFlight |-> {}]
  IN
  /\ ChunkIdle
  /\ pc = "server"
  /\ args = NoCall
  /\ result = NoResult
  /\ inv = [i \in Invocations |-> IdleInvocation]

\* The calls of chunkText in the loop over data.results: one for each label
\* whose extracted text is not blank.
RECURSIVE ChunkCalls(_, _)
ChunkCalls(results, k) ==
  IF k > Len(results) THEN <<>>
  ELSE (IF Len(Trim(ExtractLabelText(results[k]))) > 0 THEN <<"chunkText">> ELSE <<>>)
         \o ChunkCalls(results, k + 1)

\* The calls aePipelineRag makes to rag-utils once makeRequest has resolved.
CallsAfterFetch(params, body, randoms) ==
  IF ~HasResults(body) THEN <<>>
  ELSE ChunkCalls(body.results, 1) \o <<"rankAndPickTop">>
         \o (IF PipelineThrows(params, body, randoms) THEN <<>>
             ELSE <<"summarizeChunks", "extractCitations">>)

\* What aePipelineRag does with a response: it throws, or it returns a bundle.
Completion(params, body, randoms) ==
  IF PipelineThrows(params, body, randoms)
  THEN [throws |-> TRUE, bundle |-> <<>>,
        calls |-> CallsAfterFetch(params, body, randoms)]
  ELSE [throws |-> FALSE, bundle |-> BundleFor(params, body, randoms),
        calls |-> CallsAfterFetch(params, body, randoms)]

\* The completions of every accepted call that fetches, tabulated once.
Completions ==
  [x \in {y \in RagArgs : SchemaAccepts(y) /\ HasSearch(ParsedParams(y))} \X ResponseBodies |->
     [r \in RandomDraws(x[2]) |-> Completion(ParsedParams(x[1]), x[2], r) ] @@ <<>>] @@ <<>>

\* A CallTool request for ae_pipeline_rag arrives: the handler parses the
\* arguments and aePipelineRag runs up to its await (or to its early return).
Invoke(i) ==
  /\ inv[i].pc = "idle"
  /\ \E raw \in RagArgs :
       inv' = [inv EXCEPT ![i] =
         IF ~SchemaAccepts(raw)
         THEN [@ EXCEPT !.pc = "failed", !.raw = raw, !.outcome = "invalid arguments",
                        !.error = "InternalError"]
         ELSE IF ~HasSearch(ParsedParams(raw))
         THEN [@ EXCEPT !.pc = "returned", !.raw = raw, !.outcome = "prompt",
                        !.bundle = EmptyBundle(ParsedParams(raw), PromptSummary)]
         ELSE [@ EXCEPT !.pc = "fetching", !.raw = raw,
                        !.requests = Append(@, SearchParams(ParsedParams(raw))),
                        !.inFlight = {j \in Invocations \ {i} : inv[j].pc = "fetching"}]]
  /\ UNCHANGED <<pc, chunkVars, args, result>>

\* Mutant: allChunks is a field of the server that every call appends to, so
\* a call ranks the labels of the calls that resolved before it with its own.
FetchResolvesSharedPool(i) ==
  /\ inv[i].pc = "fetching"
  /\ \E body \in ResponseBodies :
       \E randoms \in RandomDraws(body) :
         LET others == {j \in Invocations \ {i} :
                          inv[j].responses # <<>> /\ HasResults(inv[j].responses[1])}
             j == CHOOSE j \in others : TRUE
         IN  inv' = [inv EXCEPT ![i] =
               [@ EXCEPT !.pc = "returned", !.outcome = "results",
                         !.responses = Append(@, body), !.randoms = randoms,
                         !.bundle =
                           IF others = {} \/ ~HasResults(body)
                           THEN Completions[<<inv[i].raw, body>>][randoms].bundle
                           ELSE RagBundle(ParsedParams(inv[i].raw),
                                          inv[j].responses[1].results \o body.results,
                                          inv[j].randoms \o randoms)]]
  /\ UNCHANGED <<pc, chunkVars, args, result>>

\* Mutant: an exception of steps 3 to 8 is caught and answered with the
\* no-match bundle.
FetchResolvesSwallowing(i) ==
  /\ inv[i].pc = "fetching"
  /\ \E body \in ResponseBodies :
       \E randoms \in RandomDraws(body) :
         inv' = [inv EXCEPT ![i] =
           [@ EXCEPT !.pc = "returned",
                     !.outcome = IF Completions[<<inv[i].raw, body>>][randoms].throws
                                 THEN "exception"
                                 ELSE IF HasResults(body) THEN "results" ELSE "no match",
                     !.responses = Append(@, body), !.randoms = randoms,
                     !.calls = Completions[<<inv[i].raw, body>>][randoms].calls,
                     !.bundle = IF Completions[<<inv[i].raw, body>>][randoms].throws
                                THEN EmptyBundle(ParsedParams(inv[i].raw), NoMatchSummary)
                                ELSE Completions[<<inv[i].raw, body>>][randoms].bundle]]
  /\ UNCHANGED <<pc, chunkVars, args, result>>

\* makeRequest resolves with a body: aePipelineRag runs to its end.
FetchResolves(i) ==
  /\ inv[i].pc = "fetching"
  /\ \E body \in ResponseBodies :
       \E randoms \in RandomDraws(body) :
         inv' = [inv EXCEPT ![i] =
           IF Completions[<<inv[i].raw, body>>][randoms].throws
           THEN [@ EXCEPT !.pc = "failed", !.outcome = "exception",
                          !.responses = Append(@, body), !.randoms = randoms,
                          !.calls = Completions[<<inv[i].raw, body>>][randoms].calls,
                          !.error = "InternalError"]
           ELSE [@ EXCEPT !.pc = "returned",
                          !.outcome = IF HasResults(body) THEN "results" ELSE "no match",
                          !.responses = Append(@, body), !.randoms = randoms,
                          !.calls = Completions[<<inv[i].raw, body>>][randoms].calls,
                          !.bundle = Completions[<<inv[i].raw, body>>][randoms].bundle]]
  /\ UNCHANGED <<pc, chunkVars, args, result>>

\* Mutant: a failed fetch is answered with the no-match bundle.
FetchFailsSoftly(i) ==
  /\ inv[i].pc = "fetching"
  /\ \E cause \in {"http error", "transport error"} :
       inv' = [inv EXCEPT ![i] =
                 [@ EXCEPT !.pc = "returned", !.outcome = cause,
                           !.bundle = EmptyBundle(ParsedParams(inv[i].raw), NoMatchSummary)]]
  /\ UNCHANGED <<pc, chunkVars, args, result>>

\* makeRequest throws: the response is not OK, or fetch itself fails. The catch
\* of aePipelineRag rethrows it as an McpError.
FetchFails(i) ==
  /\ inv[i].pc = "fetching"
  /\ \E cause \in {"http error", "transport error"} :
       inv' = [inv EXCEPT ![i] =
                 [@ EXCEPT !.pc = "failed", !.outcome = cause, !.error = "InternalError"]]
  /\ UNCHANGED <<pc, chunkVars, args, result>>

Next == \E i \in Invocations : Invoke(i) \/ FetchResolves(i) \/ FetchFails(i)

Spec == Init /\ [][Next]_vars

----------------------------------------------------------------------------
(* The claims about the tool calls *)

\* The calls made with none of query, drug and condition, whose arguments the
\* invocation interface admits.
NoCriteria(i) ==
  /\ inv[i].pc # "idle"
  /\ SchemaAccepts(inv[i].raw)
  /\ DOMAIN inv[i].raw \cap {"query", "drug", "condition"} = {}

\* C10: a call of ae_pipeline_rag with query, drug and condition all absent
\* returns the bundle with the prompt-for-input summary, no top chunk and no
\* citation, and at no point of the call has makeRequest been called for it.
C10_NoCriteriaShortCircuit ==
  \A i \in Invocations :
    NoCriteria(i) =>
      /\ inv[i].pc = "returned"
      /\ inv[i].bundle.summary = PromptSummary
      /\ inv[i].bundle.top_chunks = <<>>
      /\ inv[i].bundle.citations = <<>>
      /\ inv[i].bundle.source = "openfda"
      /\ inv[i].requests = <<>>

\* A call without criteria has returned while the other call, made with a
\* drug, has its request in flight.
C10_Witness ==
  \E i, j \in Invocations :
    /\ NoCriteria(i)
    /\ inv[i].outcome = "prompt"
    /\ "top_k" \in DOMAIN inv[i].raw
    /\ inv[j].pc = "fetching"
    /\ inv[j].requests # <<>>

\* The calls whose arguments the invocation interface admits.
Admitted(i) == inv[i].pc # "idle" /\ SchemaAccepts(inv[i].raw)

\* The calls that supply a non-empty string in drug, condition or query.
SomeCriterion(i) ==
  /\ Admitted(i)
  /\ \E f \in DOMAIN inv[i].raw \cap {"query", "drug", "condition"} : inv[i].raw[f] # <<>>

\* C11 (as claimed): a call that supplies a non-empty drug, condition or query
\* (a query of words of at most two characters included) does not take the
\* prompt-for-input return: makeRequest is called with a non-empty search
\* expression.
C11_SearchWheneverCriterion ==
  \A i \in Invocations :
    SomeCriterion(i) =>
      /\ inv[i].outcome # "prompt"
      /\ Len(inv[i].requests) = 1
      /\ Truthy(inv[i].requests[1].search)

\* A response without documents: no results field, or an empty results array.
NoDocuments(body) == "results" \notin DOMAIN body \/ Len(body.results) = 0

\* C12: a call whose fetch resolved without documents returns the bundle with
\* the no-match summary, no top chunk and no citation, with query, drug and
\* condition as they were given, and none of chunkText, rankAndPickTop,
\* summarizeChunks and extractCitations is called.
C12_EmptyUpstreamBundle ==
  \A i \in Invocations :
    (inv[i].responses # <<>> /\ NoDocuments(inv[i].responses[1])) =>
      /\ inv[i].pc = "returned"
      /\ inv[i].bundle.source = "openfda"
      /\ inv[i].bundle.summary = NoMatchSummary
      /\ inv[i].bundle.top_chunks = <<>>
      /\ inv[i].bundle.citations = <<>>
      /\ inv[i].bundle.query = Option(inv[i].raw, "query")
      /\ inv[i].bundle.drug = Option(inv[i].raw, "drug")
      /\ inv[i].bundle.condition = Option(inv[i].raw, "condition")
      /\ inv[i].calls = <<>>

\* The call {drug: "aspirin"} got an empty results array, and the other call,
\* made with a query, got a body without results field.
C12_Witness ==
  \E i, j \in Invocations :
    /\ inv[i].pc = "returned"
    /\ inv[i].raw = [drug |-> DrugAspirin]
    /\ inv[i].responses = <<[results |-> <<>>]>>
    /\ inv[j].pc = "returned"
    /\ "query" \in DOMAIN inv[j].raw
    /\ inv[j].responses = <<<<>>>>

\* C13: a call whose fetch failed (response not OK, or transport error) ends
\* as a failure with an McpError: it returns no bundle, it called makeRequest
\* once, and nothing of rag-utils ran for it.
C13_FetchFailureFailsCall ==
  \A i \in Invocations :
    inv[i].outcome \in {"http error", "transport error"} =>
      /\ inv[i].pc = "failed"
      /\ inv[i].error = "InternalError"
      /\ inv[i].bundle = <<>>
      /\ Len(inv[i].requests) = 1
      /\ inv[i].responses = <<>>
      /\ inv[i].calls = <<>>

\* One call failed on a response that was not OK and the other on a transport
\* error.
C13_Witness ==
  \E i, j \in Invocations :
    /\ inv[i].outcome = "http error"
    /\ inv[j].outcome = "transport error"
    /\ inv[i].pc = "failed"
    /\ inv[j].pc = "failed"

\* A document with no text in any of the sections extractLabelText knows.
Textless(label) ==
  \A k \in 1..Len(LabelSections) : ~SectionTruthy(label, LabelSections[k][1])

\* C14 (as claimed): a fetched document without text in any known section adds
\* no chunk to the pool: no top chunk has it as its source and no citation
\* carries its id.
C14_TextlessDocumentSkipped ==
  \A i \in Invocations :
    (inv[i].pc = "returned" /\ inv[i].outcome = "results") =>
      \A k \in 1..Len(inv[i].responses[1].results) :
        Textless(inv[i].responses[1].results[k]) =>
          LET labelId == LabelId(inv[i].responses[1].results[k], inv[i].randoms[k])
          IN  /\ \A c \in 1..Len(inv[i].bundle.top_chunks) :
                   inv[i].bundle.top_chunks[c].source # labelId
              /\ \A c \in 1..Len(inv[i].bundle.citations) :
                   inv[i].bundle.citations[c].id # labelId

\* What a call returns when it runs alone with these arguments, this response
\* and these draws of Math.random().
AloneBundle(raw, responses, randoms) ==
  IF responses = <<>> THEN EmptyBundle(ParsedParams(raw), PromptSummary)
  ELSE Completions[<<raw, responses[1]>>][randoms].bundle

OutOfRange(i) ==
  /\ inv[i].pc # "idle"
  /\ \/ /\ "top_k" \in DOMAIN inv[i].raw
        /\ ~IntegerWithin(inv[i].raw.top_k, TopKMin, TopKMax)
     \/ /\ "filters" \in DOMAIN inv[i].raw
        /\ "limit" \in DOMAIN inv[i].raw.filters
        /\ ~IntegerWithin(inv[i].raw.filters.limit, LimitMin, LimitMax)

\* top_k as given, or its default.
GivenTopK(raw) ==
  IF "top_k" \in DOMAIN raw THEN ToNumber(raw.top_k).tenths \div 10 ELSE TopKDefault

\* filters.limit as given, or its default.
GivenLimit(raw) ==
  IF "filters" \in DOMAIN raw /\ "limit" \in DOMAIN raw.filters
  THEN ToNumber(raw.filters.limit).tenths \div 10 ELSE LimitDefault

\* C16: a call whose top_k is not an integer of 1..10, or whose filters.limit
\* is not an integer of 1..100, fails before any fetch; every request carries
\* the given limit (50 if none), and every returned bundle holds at most top_k
\* (5 if none given), hence at most 10, top chunks.
C16_RangesEnforced ==
  \A i \in Invocations :
    /\ OutOfRange(i) =>
         /\ inv[i].pc = "failed"
         /\ inv[i].requests = <<>>
         /\ inv[i].bundle = <<>>
    /\ \A r \in 1..Len(inv[i].requests) :
         /\ inv[i].requests[r].limit = GivenLimit(inv[i].raw)
         /\ inv[i].requests[r].limit \in LimitMin..LimitMax
    /\ inv[i].pc = "returned" =>
         /\ Len(inv[i].bundle.top_chunks) <= GivenTopK(inv[i].raw)
         /\ Len(inv[i].bundle.top_chunks) <= TopKMax

\* A call with top_k 11 has failed without a request, and a call without
\* top_k that got more labels than the default has returned 5 top chunks.
C16_Witness ==
  \E i, j \in Invocations :
    /\ OutOfRange(i)
    /\ "top_k" \in DOMAIN inv[i].raw
    /\ ToNumber(inv[i].raw.top_k).tenths = 10 * (TopKMax + 1)
    /\ inv[i].pc = "failed"
    /\ inv[j].pc = "returned"
    /\ inv[j].outcome = "results"
    /\ "top_k" \notin DOMAIN inv[j].raw
    /\ Len(inv[j].responses[1].results) > TopKDefault
    /\ Len(inv[j].bundle.top_chunks) = TopKDefault

----------------------------------------------------------------------------
(* Claims about the ranking of chunks that hold a keyword *)

\* The keywords of the query alone.
QueryKeywords(query) == LongerThanTwo(SplitWhitespace(ToLowerCase(query)))

\* The chunk text holds an occurrence of a keyword of the query.
HoldsQueryKeyword(chunk, query) ==
  \E k \in 1..Len(QueryKeywords(query)) :
    Includes(ToLowerCase(chunk.text), QueryKeywords(query)[k])

\* The chunk text holds no keyword at all and not the query phrase.
HoldsNothing(chunk, query, extraKeywords) ==
  /\ \A k \in 1..Len(AllKeywords(query, extraKeywords)) :
       ~Includes(ToLowerCase(chunk.text), AllKeywords(query, extraKeywords)[k])
  /\ ~Includes(ToLowerCase(chunk.text), ToLowerCase(query))

\* C18 (as claimed): when the query has a keyword, no returned chunk without
\* keyword and phrase comes before a returned chunk that holds a query
\* keyword, and none is returned while a chunk that holds one is left out.
C18_KeywordChunksFirst ==
  (RankReturned /\ args.topK >= 1 /\ QueryKeywords(args.query) # <<>>) =>
    /\ \A i, j \in 1..Len(result.value) :
         (i < j /\ HoldsQueryKeyword(result.value[j], args.query)) =>
           ~HoldsNothing(result.value[i], args.query, args.extraKeywords)
    /\ \A k \in 1..Len(args.chunks) :
         (HoldsQueryKeyword(args.chunks[k], args.query)
            /\ args.chunks[k].id \notin ReturnedIds) =>
           \A i \in 1..Len(result.value) :
             ~HoldsNothing(result.value[i], args.query, args.extraKeywords)

----------------------------------------------------------------------------
(* The specification of the calls of scoreChunkByQuery *)

\* Most occurrences of a keyword appended to one chunk.
MaxAppends == 2

ScoreInit ==
  /\ ChunkIdle
  /\ pc = "call"
  /\ \E t \in RankTexts, query \in RankQueries, extraKeywords \in RankExtraKeywords :
       args = [fn |-> "scoreChunkByQuery", chunk |-> InputChunk(t, 0), query |-> query,
               extraKeywords |-> extraKeywords, before |-> <<>>]
  /\ result = NoResult
  /\ inv = NoInvocations

\* scoreChunkByQuery(chunk, query, extraKeywords) runs and returns.
ScoreCall ==
  /\ pc = "call"
  /\ args.fn = "scoreChunkByQuery"
  /\ result' = [kind |-> "value",
                value |-> ScoreChunkByQuery(args.chunk, args.query, args.extraKeywords)]
  /\ args' = [args EXCEPT !.chunk = ChunkAfterScore(@, args.query, args.extraKeywords)]
  /\ pc' = "done"
  /\ UNCHANGED <<chunkVars, inv>>

\* The caller appends one more occurrence of a keyword of the query to the
\* text of the chunk, after a blank or not, and scores the chunk again; the
\* score returned before is kept for the comparison.
ScoreAppend ==
  /\ pc = "done"
  /\ args.fn = "scoreChunkByQuery"
  /\ Len(args.before) < MaxAppends
  /\ \E k \in 1..Len(QueryKeywords(args.query)), sep \in {<<>>, <<" ">>} :
       args' = [args EXCEPT !.chunk.text = @ \o sep \o QueryKeywords(args.query)[k],
                            !.before = Append(@, result.value)]
  /\ result' = NoResult
  /\ pc' = "call"
  /\ UNCHANGED <<chunkVars, inv>>

ScoreNext == ScoreCall \/ ScoreAppend

ScoreSpec == ScoreInit /\ [][ScoreNext]_vars

----------------------------------------------------------------------------
(* Claims about scoreChunkByQuery *)

ScoreReturned == pc = "done" /\ args.fn = "scoreChunkByQuery"

\* C17 (as claimed): the score returned for any chunk, the chunk with the
\* empty text included, is a number (not NaN) that is at least 0.
C17_ScoreIsNonNegativeNumber ==
  ScoreReturned => (~result.value.nan /\ result.value.v >= 0)

----------------------------------------------------------------------------
(* The tools get_drug_adverse_reactions, get_drug_warnings and
   get_drug_indications: the inputSchema the server advertises, and the
   CallTool handler with DrugQueryParamsSchema *)

DrugTools == {"get_drug_adverse_reactions", "get_drug_warnings", "get_drug_indications"}

\* inputSchema.properties.limit of the three tools: minimum, maximum, default.
AdvertisedLimitMin == 1
AdvertisedLimitMax == 10
AdvertisedLimitDefault == 5

\* DrugQueryParamsSchema.limit: min, max, default.
DrugLimitMin == 1
DrugLimitMax == 5
DrugLimitDefault == 3

\* The fallback of the handler: adverseParams.limit || 5.
HandlerLimitFallback == 5

\* Whether the advertised inputSchema allows the arguments: drug_name is
\* required and a string, limit is a number within minimum and maximum.
AdvertisedAllows(raw) ==
  /\ "drug_name" \in DOMAIN raw
  /\ "limit" \in DOMAIN raw =>
       /\ raw.limit.json = "number"
       /\ raw.limit.tenths >= 10 * AdvertisedLimitMin
       /\ raw.limit.tenths <= 10 * AdvertisedLimitMax

\* The object a drug tool stringifies into its answer: the query, the total
\* of data.meta, and one entry for each element of data.results.
DrugResults(tool, drugName, data) ==
  LET Unknown == <<"U", "n", "k", "n", "o", "w", "n">>
      EmptyArray == [isArray |-> TRUE, items |-> <<>>]
      DataKey == CASE tool = "get_drug_adverse_reactions" -> "adverse_reactions_data"
                   [] tool = "get_drug_warnings" -> "warnings_data"
                   [] tool = "get_drug_indications" -> "indications_data"
      Sections == CASE tool = "get_drug_adverse_reactions" ->
                         {"adverse_reactions", "contraindications"}
                    [] tool = "get_drug_warnings" ->
                         {"warnings", "precautions", "boxed_warning"}
                    [] tool = "get_drug_indications" ->
                         {"indications_and_usage", "dosage_and_administration"}
      Entry(label) ==
        [drug_name |-> OrElse(OpenFdaFirst(label, "brand_name"),
                              OrElse(OpenFdaFirst(label, "generic_name"), Unknown)),
         manufacturer |-> OrElse(OpenFdaFirst(label, "manufacturer_name"), Unknown)]
          @@ [section \in Sections |->
                IF section \in DOMAIN label THEN label[section] ELSE EmptyArray]
      Entries == IF "results" \in DOMAIN data
                 THEN [n \in 1..Len(data.results) |-> Entry(data.results[n])]
                 ELSE <<>>
  IN  [query |-> drugName,
       total_results |-> IF "meta" \in DOMAIN data THEN data.meta.results.total ELSE 0]
        @@ (DataKey :> Entries)

DrugInit ==
      \* The arguments of the calls.
  LET Names == {<<>>, [drug_name |-> DrugAspirin],
                [drug_name |-> <<"i", "b", "u", "p", "r", "o", "f", "e", "n">>]}
      Limits == {<<>>, [limit |-> NumberValue(15)], [limit |-> StringValue(<<"4">>)],
                 [limit |-> StringValue(<<"7">>)], [limit |-> StringValue(<<"x">>)]}
                  \cup {[limit |-> NumberValue(10 * n)] : n \in 0..(AdvertisedLimitMax + 1)}
  IN  /\ ChunkIdle
      /\ pc = "call"
      /\ \E tool \in DrugTools, name \in Names, limit \in Limits :
           args = [fn |-> tool, raw |-> name @@ limit]
      /\ result = NoResult
      /\ inv = NoInvocations

\* A CallTool request for one of the three tools arrives: the handler parses
\* the arguments with DrugQueryParamsSchema and the tool's method runs up to
\* the await of makeRequest.
DrugCall ==
      \* DrugQueryParamsSchema.parse(args): whether it accepts the arguments.
  LET Accepts(raw) ==
        /\ "drug_name" \in DOMAIN raw
        /\ "limit" \in DOMAIN raw => IntegerWithin(raw.limit, DrugLimitMin, DrugLimitMax)
      \* The parsed limit, with the default of the schema.
      ParsedLimit(raw) ==
        IF "limit" \in DOMAIN raw THEN ToNumber(raw.limit).tenths \div 10
        ELSE DrugLimitDefault
      \* The second argument of the method: params.limit || 5.
      Forwarded(raw) ==
        IF ParsedLimit(raw) # 0 THEN ParsedLimit(raw) ELSE HandlerLimitFallback
      \* The parameters given to makeRequest, and the query of the URL it
      \* fetches: search and limit are set when truthy, skip is 0 and left out.
      Request(raw) ==
        [search |-> DrugTerm(raw.drug_name), limit |-> Forwarded(raw), skip |-> 0,
         url |-> [search |-> DrugTerm(raw.drug_name)]
                   @@ (IF Forwarded(raw) # 0 THEN [limit |-> Digits(Forwarded(raw))]
                       ELSE <<>>)]
  IN  /\ pc = "call"
      /\ args.fn \in DrugTools
      /\ IF Accepts(args.raw)
         THEN /\ result' = [kind |-> "fetching", requests |-> <<Request(args.raw)>>]
              /\ pc' = "awaiting"
         ELSE /\ result' = [kind |-> "throws", error |-> "InternalError", requests |-> <<>>]
              /\ pc' = "done"
      /\ UNCHANGED <<chunkVars, args, inv>>

\* makeRequest resolves with a body and the method returns its answer.
DrugFetchResolves ==
  LET WithMeta == [meta |-> [results |-> [total |-> 2]], results |-> <<LabelAspirin>>]
  IN  /\ pc = "awaiting"
      /\ args.fn \in DrugTools
      /\ \E data \in ResponseBodies \cup {WithMeta} :
           result' = [kind |-> "value", requests |-> result.requests,
                      value |-> DrugResults(args.fn, args.raw.drug_name, data)]
      /\ pc' = "done"
      /\ UNCHANGED <<chunkVars, args, inv>>

\* fetch rejects or the response is not OK: makeRequest throws, and the catch
\* of the handler throws McpError(InternalError).
DrugFetchFails ==
  /\ pc = "awaiting"
  /\ args.fn \in DrugTools
  /\ result' = [kind |-> "throws", error |-> "InternalError", requests |-> result.requests]
  /\ pc' = "done"
  /\ UNCHANGED <<chunkVars, args, inv>>

DrugNext == DrugCall \/ DrugFetchResolves \/ DrugFetchFails

DrugSpec == DrugInit /\ [][DrugNext]_vars

----------------------------------------------------------------------------
(* Claims about the limit of the three drug tools *)

\* C20 (as claimed): a call of get_drug_adverse_reactions, get_drug_warnings
\* or get_drug_indications whose arguments the advertised inputSchema allows
\* and whose limit is an integer from 1 to 10 is accepted by the handler, and
\* it asks the upstream for exactly that limit.
C20_AdvertisedLimitForwarded ==
  (/\ pc # "call"
   /\ args.fn \in DrugTools
   /\ AdvertisedAllows(args.raw)
   /\ "limit" \in DOMAIN args.raw
   /\ args.raw.limit.tenths % 10 = 0) =>
     /\ Len(result.requests) = 1
     /\ result.requests[1].limit = args.raw.limit.tenths \div 10
     /\ result.requests[1].url.limit = Digits(args.raw.limit.tenths \div 10)

----------------------------------------------------------------------------
(* The HTTP server (OpenFDAHTTPServer): its routes, each with its try and
   catch *)

DrugRoutes ==
  {"/drug/:name/adverse-reactions", "/drug/:name/warnings", "/drug/:name/indications"}

HttpRoutes == DrugRoutes \cup {"/drug-labels", "/health", "/openapi.json"}

\* z.coerce.number().int().min(1).max(10) and const { limit = 3 } = req.query
HttpLimitMin == 1
HttpLimitMax == 10
HttpLimitDefault == 3

\* DrugLabelSearchParamsSchema of the HTTP server: skip and limit.
LabelsSkipMin == 0
LabelsSkipDefault == 0
LabelsLimitMin == 1
LabelsLimitMax == 200
LabelsLimitDefault == 50

HttpInit ==
      \* What req.params.name and req.query may hold: query values are strings.
  LET Names == {DrugAspirin, <<"i", "b", "u", "p", "r", "o", "f", "e", "n">>}
      Searches == {<<>>, [search |-> DrugAspirin]}
      Skips == {<<>>, [skip |-> StringValue(<<"2">>)], [skip |-> StringValue(<<"x">>)]}
      Limits == {<<>>} \cup
                {[limit |-> StringValue(str)] :
                   str \in {<<"0">>, <<"1">>, <<"1", "0">>, <<"1", "1">>, <<"2", "0", "0">>,
                            <<"2", "0", "1">>, <<"x">>, <<>>}}
  IN  /\ ChunkIdle
      /\ pc = "request"
      /\ \E route \in HttpRoutes, name \in Names, search \in Searches, skip \in Skips,
            limit \in Limits :
           args = [fn |-> route,
                   name |-> IF route \in DrugRoutes THEN name ELSE <<>>,
                   query |-> IF route \in DrugRoutes THEN limit
                             ELSE IF route = "/drug-labels" THEN search @@ skip @@ limit
                             ELSE <<>>]
      /\ result = NoResult
      /\ inv = NoInvocations

\* A GET request arrives: the route's handler runs up to the await of
\* makeRequest, or to its answer when it has none or when parsing throws.
HttpHandle ==
      \* DrugLabelSearchParamsSchema.parse(req.query)
  LET LabelsAccepts(query) ==
        /\ "skip" \in DOMAIN query =>
             /\ ~ToNumber(query.skip).nan
             /\ ToNumber(query.skip).tenths % 10 = 0
             /\ ToNumber(query.skip).tenths >= 10 * LabelsSkipMin
        /\ "limit" \in DOMAIN query =>
             IntegerWithin(query.limit, LabelsLimitMin, LabelsLimitMax)
      Parsed(query, k, default) ==
        IF k \in DOMAIN query THEN ToNumber(query[k]).tenths \div 10 ELSE default
      \* The query of the URL makeRequest fetches: a parameter is set when truthy.
      UrlOf(params) ==
        (IF Truthy(params.search) THEN [search |-> params.search] ELSE <<>>)
          @@ (IF params.skip # 0 THEN [skip |-> Digits(params.skip)] ELSE <<>>)
          @@ (IF params.limit # 0 THEN [limit |-> Digits(params.limit)] ELSE <<>>)
      LabelsRequest(query) ==
        [search |-> Option(query, "search"),
         skip   |-> Parsed(query, "skip", LabelsSkipDefault),
         limit  |-> Parsed(query, "limit", LabelsLimitDefault)]
      DrugRequest(name, query) ==
        [search |-> DrugTerm(name), skip |-> 0,
         limit |-> Parsed(query, "limit", HttpLimitDefault)]
      Fetching(params) ==
        [kind |-> "fetching", requests |-> <<params @@ [url |-> UrlOf(params)]>>]
      BadRequest ==
        [kind |-> "response", status |-> 400, cause |-> "parameters", requests |-> <<>>]
  IN  /\ pc = "request"
      /\ args.fn \in HttpRoutes
      /\ result' =
           IF args.fn = "/health" \/ args.fn = "/openapi.json"
           THEN [kind |-> "response", status |-> 200, cause |-> "none", requests |-> <<>>]
           ELSE IF args.fn = "/drug-labels"
           THEN IF LabelsAccepts(args.query) THEN Fetching(LabelsRequest(args.query))
                ELSE BadRequest
           ELSE IF "limit" \in DOMAIN args.query
                   => IntegerWithin(args.query.limit, HttpLimitMin, HttpLimitMax)
                THEN Fetching(DrugRequest(args.name, args.query))
                ELSE BadRequest
      /\ pc' = IF result'.kind = "fetching" THEN "awaiting" ELSE "done"
      /\ UNCHANGED <<chunkVars, args, inv>>

\* makeRequest resolves with a body: res.json(...) answers with status 200.
HttpFetchResolves ==
  LET ToolOf == [r \in DrugRoutes |->
                   CASE r = "/drug/:name/adverse-reactions" -> "get_drug_adverse_reactions"
                     [] r = "/drug/:name/warnings" -> "get_drug_warnings"
                     [] r = "/drug/:name/indications" -> "get_drug_indications"]
      Labels(data) ==
        [meta |-> IF "meta" \in DOMAIN data THEN data.meta ELSE Undefined,
         results_count |-> IF "results" \in DOMAIN data THEN Len(data.results) ELSE 0,
         results |-> IF "results" \in DOMAIN data THEN data.results ELSE <<>>]
      WithMeta == [meta |-> [results |-> [total |-> 2]], results |-> <<LabelAspirin>>]
  IN  /\ pc = "awaiting"
      /\ args.fn \in HttpRoutes
      /\ \E data \in ResponseBodies \cup {WithMeta} :
           result' = [kind |-> "response", status |-> 200, cause |-> "none",
                      requests |-> result.requests,
                      body |-> IF args.fn = "/drug-labels" THEN Labels(data)
                               ELSE DrugResults(ToolOf[args.fn], args.name, data)]
      /\ pc' = "done"
      /\ UNCHANGED <<chunkVars, args, inv>>

\* fetch rejects or the response of OpenFDA is not OK: makeRequest throws and
\* the catch of the route answers res.status(400).
HttpFetchFails ==
  /\ pc = "awaiting"
  /\ args.fn \in HttpRoutes
  /\ result' = [kind |-> "response", status |-> 400, cause |-> "upstream",
                requests |-> result.requests]
  /\ pc' = "done"
  /\ UNCHANGED <<chunkVars, args, inv>>

HttpNext == HttpHandle \/ HttpFetchResolves \/ HttpFetchFails

HttpSpec == HttpInit /\ [][HttpNext]_vars

----------------------------------------------------------------------------
(* Claims about the status codes of the HTTP server *)

\* C21 (as claimed): every route answers a request whose parameters are
\* wrong with status 400, and a request that fails inside the server or
\* upstream (OpenFDA answers with a status that is not OK) with status 500.
C21_StatusByCause ==
  (pc = "done" /\ args.fn \in HttpRoutes) =>
    /\ result.cause = "parameters" => result.status = 400
    /\ result.cause = "upstream" => result.status = 500

----------------------------------------------------------------------------
(* Claims about the break point of chunkText *)

\* The end of the candidate window of chunk k.
WindowEnd(k) == Min(chunks[k].metadata.start + chunkSize, Len(text))

\* The index, within the candidate window of chunk k, of its last "." or
\* line break; -1 when it has none.
LastBreak(k) ==
  LET breaks == {i \in chunks[k].metadata.start..(WindowEnd(k) - 1) :
                   text[i + 1] \in {".", "\n"}}
  IN  IF breaks = {} THEN -1
      ELSE (CHOOSE i \in breaks : \A j \in breaks : j <= i) - chunks[k].metadata.start

\* Chunk k ends just after the last break of its window, or it is the whole
\* window; its text is the trimmed cut.
CutAtBreak(k) ==
  /\ chunks[k].metadata.end = chunks[k].metadata.start + LastBreak(k) + 1
  /\ chunks[k].text
       = Trim(Slice(text, chunks[k].metadata.start, chunks[k].metadata.end))

WholeWindow(k) ==
  /\ chunks[k].metadata.end = WindowEnd(k)
  /\ chunks[k].text = Trim(Slice(text, chunks[k].metadata.start, WindowEnd(k)))

\* C22 (as claimed): a chunk whose window does not reach the end of the text
\* and whose last "." or line break retains at least 70% of chunkSize
\* characters ends just after that break; every other chunk is its whole
\* window.
C22_CutWhenSeventyRetained ==
  \A k \in 1..Len(chunks) :
    IF /\ WindowEnd(k) < Len(text)
       /\ LastBreak(k) >= 0
       /\ 10 * (LastBreak(k) + 1) >= 7 * chunkSize
    THEN CutAtBreak(k)
    ELSE WholeWindow(k)

\* C22 (amended): a chunk whose window does not reach the end of the text and
\* whose last "." or line break has an index in the window greater than
\* 0.7 * chunkSize ends just after that break; every other chunk is its whole
\* window.
C22_CutWhenIndexBeyondSeventy ==
  \A k \in 1..Len(chunks) :
    IF WindowEnd(k) < Len(text) /\ 10 * LastBreak(k) > 7 * chunkSize
    THEN CutAtBreak(k)
    ELSE WholeWindow(k)

\* A returned list with a chunk that ends at a break before the end of its
\* window.
C22_Witness ==
  /\ Returned
  /\ \E k \in 1..Len(chunks) :
       /\ CutAtBreak(k)
       /\ chunks[k].metadata.end < WindowEnd(k)

----------------------------------------------------------------------------
(* Claims about what the bundle of ae_pipeline_rag is built from *)

\* Invocation i returned the bundle of a response that held documents.
ReturnedResults(i) == inv[i].pc = "returned" /\ inv[i].outcome = "results"

\* allChunks of invocation i: the chunks of the documents it was given.
PoolOf(i) == AllChunks(inv[i].responses[1].results, inv[i].randoms, 1)

\* C23: every citation of a returned bundle has the id of the source of a
\* chunk of top_chunks or an id that occurs in the text of one; what only
\* chunks outside top_chunks hold is not cited.
C23_CitationsFromTopChunks ==
  \A i \in Invocations :
    ReturnedResults(i) =>
      \A c \in 1..Len(inv[i].bundle.citations) :
        \E k \in 1..Len(inv[i].bundle.top_chunks) :
          \/ inv[i].bundle.citations[c].id = inv[i].bundle.top_chunks[k].source
          \/ Includes(inv[i].bundle.top_chunks[k].text, inv[i].bundle.citations[c].id)

\* A returned bundle that cites a trial named in a chunk of top_chunks while a
\* document of the response is left out of top_chunks and of the citations.
C23_Witness ==
  \E i \in Invocations :
    /\ ReturnedResults(i)
    /\ \E c \in 1..Len(inv[i].bundle.citations) :
         inv[i].bundle.citations[c].type = "clinical_trial"
    /\ \E k \in 1..Len(PoolOf(i)) :
         \A c \in 1..Len(inv[i].bundle.citations) :
           inv[i].bundle.citations[c].id # PoolOf(i)[k].source

\* allChunks with the score of every chunk, for every accepted call that
\* fetches and every response with documents, tabulated once.
ScoredPools ==
  [x \in {y \in RagArgs : SchemaAccepts(y) /\ HasSearch(ParsedParams(y))}
          \X {b \in ResponseBodies : HasResults(b)} |->
     [r \in RandomDraws(x[2]) |->
        WithScores(AllChunks(x[2].results, r, 1), QueryText(ParsedParams(x[1])),
                   ExtraKeywords)] @@ <<>>] @@ <<>>

ScoredPoolOf(i) == ScoredPools[<<inv[i].raw, inv[i].responses[1]>>][inv[i].randoms]

\* The score the ranking compares.
ScoreValue(chunk) == IF chunk.score.nan THEN 0 ELSE chunk.score.v

\* C24: top_chunks of a returned bundle are top_k chunks of the pool of all
\* documents, or the whole pool when it has fewer, and no chunk left out has
\* a higher score than one taken, whatever document the chunks come from.
C24_TopOfWholePool ==
  \A i \in Invocations :
    ReturnedResults(i) =>
      LET pool == ScoredPoolOf(i)
          top  == inv[i].bundle.top_chunks
          taken == {top[k].id : k \in 1..Len(top)}
      IN  /\ Len(top) = Min(ParsedParams(inv[i].raw).top_k, Len(pool))
          /\ Cardinality(taken) = Len(top)
          /\ \A k \in 1..Len(top) :
               \E p \in 1..Len(pool) : pool[p].id = top[k].id /\ pool[p].score = top[k].score
          /\ \A p \in 1..Len(pool) :
               pool[p].id \notin taken =>
                 \A k \in 1..Len(top) : ScoreValue(pool[p]) <= ScoreValue(top[k])

\* A returned bundle whose two top chunks come from one document, while the
\* other document of the response has none.
C24_Witness ==
  \E i \in Invocations :
    /\ ReturnedResults(i)
    /\ Len(inv[i].bundle.top_chunks) = 2
    /\ inv[i].bundle.top_chunks[1].source = inv[i].bundle.top_chunks[2].source
    /\ Len(inv[i].responses[1].results) = 2

----------------------------------------------------------------------------
(* Claims about exceptions inside the pipeline *)

\* Steps 3 to 8 of invocation i raised an exception.
RaisedInside(i) ==
  /\ inv[i].responses # <<>>
  /\ Completions[<<inv[i].raw, inv[i].responses[1]>>][inv[i].randoms].throws

\* C25: an invocation in which chunking, scoring, ranking, summarizing or
\* citing raised an exception has failed with the error of the pipeline; it
\* has returned nothing and holds no bundle.
C25_ExceptionFailsCall ==
  \A i \in Invocations :
    RaisedInside(i) =>
      /\ inv[i].pc = "failed"
      /\ inv[i].error = "InternalError"
      /\ inv[i].bundle = <<>>

\* An invocation failed while it ranked the chunks of a response with
\* documents: a keyword of its query is no regular expression.
C25_Witness ==
  \E i \in Invocations :
    /\ RaisedInside(i)
    /\ inv[i].raw.query = QueryBadRegex
    /\ inv[i].calls # <<>>
    /\ inv[i].calls[Len(inv[i].calls)] = "rankAndPickTop"

----------------------------------------------------------------------------
(* Claims about what scoring and ranking leave of their inputs *)

----------------------------------------------------------------------------
(* Claims about the order of the citations *)

\* The first chunk of the input that yields this id.
FirstYield(id) == MinOf({k \in 1..Len(args.chunks) : id \in YieldedIds(args.chunks[k])})

\* The entry the first chunk that yields this id makes for it: a trial when the
\* id is one of its NCT matches, else an rxnorm entry when it is one of its
\* rxcui numbers, else the entry of its source.
FirstEntry(id) ==
  LET c == args.chunks[FirstYield(id)]
  IN  IF \E i \in 1..Len(NctMatches(c.text)) : NctMatches(c.text)[i] = id
      THEN [id |-> id, type |-> "clinical_trial"]
      ELSE IF \E i \in 1..Len(RxcuiMatches(c.text)) : FirstDigits(RxcuiMatches(c.text)[i]) = id
      THEN [id |-> id, type |-> "rxnorm"]
      ELSE [id |-> id,
            type |-> IF "type" \in DOMAIN c.metadata /\ c.metadata.type # ""
                     THEN c.metadata.type ELSE "document",
            title |-> IF "title" \in DOMAIN c.metadata THEN c.metadata.title ELSE Undefined]

\* C27: the citations come in the order of the chunks that first yield their
\* ids, and the entry of an id is the one its first occurrence makes.
C27_CitationsInChunkOrder ==
  CiteReturned =>
    /\ \A a, b \in 1..Len(result.value) :
         a < b => FirstYield(result.value[a].id) <= FirstYield(result.value[b].id)
    /\ \A a \in 1..Len(result.value) : result.value[a] = FirstEntry(result.value[a].id)

\* A call whose second chunk has as its source an id the text of the first
\* chunk names, and as its type another one than the entry of that id has.
C27_Witness ==
  /\ CiteReturned
  /\ Len(args.chunks) = 2
  /\ Len(result.value) >= 2
  /\ args.chunks[2].source \in YieldedIds(args.chunks[1]) \ {args.chunks[1].source}
  /\ \E a \in 1..Len(result.value) :
       /\ result.value[a].id = args.chunks[2].source
       /\ result.value[a].type # SourceCitation(args.chunks[2]).type

----------------------------------------------------------------------------
(* Claims about the citation of the source of a chunk *)

\* The identifiers the text of chunk c names: its NCT matches and rxcui numbers.
StructuredIds(c) ==
  {NctMatches(c.text)[i] : i \in 1..Len(NctMatches(c.text))}
    \cup {FirstDigits(RxcuiMatches(c.text)[i]) : i \in 1..Len(RxcuiMatches(c.text))}

\* The source of chunk k is an id nothing yielded before the chunk cites it:
\* no earlier chunk, and not the text of the chunk itself.
SourceUnseen(k) ==
  /\ args.chunks[k].source \notin StructuredIds(args.chunks[k])
  /\ \A j \in 1..(k - 1) : args.chunks[k].source \notin YieldedIds(args.chunks[j])

\* C28 as stated: the output has, for every chunk, an entry whose id is the
\* source of the chunk, and for a chunk whose text names no identifier that
\* entry is the fallback made from the metadata of the chunk.
C28_SourceEntryIsFallback ==
  CiteReturned =>
    \A k \in 1..Len(args.chunks) :
      \E a \in 1..Len(result.value) :
        /\ result.value[a].id = args.chunks[k].source
        /\ StructuredIds(args.chunks[k]) = {} => result.value[a] = SourceCitation(args.chunks[k])

\* C28 amended: the output has, for every chunk, an entry whose id is the source
\* of the chunk, whether or not the text of the chunk names identifiers; that
\* entry is the fallback made from the metadata of the chunk when nothing
\* yielded this id before.
C28_SourceEntryUnlessSeen ==
  CiteReturned =>
    \A k \in 1..Len(args.chunks) :
      \E a \in 1..Len(result.value) :
        /\ result.value[a].id = args.chunks[k].source
        /\ SourceUnseen(k) => result.value[a] = SourceCitation(args.chunks[k])

\* A call whose first chunk names identifiers and is cited by its source as
\* well, and whose second chunk has a source the first one has yielded.
C28_Witness ==
  /\ CiteReturned
  /\ Len(args.chunks) = 2
  /\ StructuredIds(args.chunks[1]) # {}
  /\ SourceUnseen(1)
  /\ \E a \in 1..Len(result.value) : result.value[a] = SourceCitation(args.chunks[1])
  /\ ~SourceUnseen(2)
  /\ StructuredIds(args.chunks[2]) = {}

----------------------------------------------------------------------------
(* Claims about two invocations that are given the same *)

\* C29: two invocations of ae_pipeline_rag with the same arguments that were
\* given the same documents by the fetch return the same bundle, also when a
\* document has neither id nor openfda.spl_id.
C29_SameInputsSameBundle ==
  \A i, j \in Invocations :
    /\ inv[i].pc = "returned" /\ inv[j].pc = "returned"
    /\ inv[i].raw = inv[j].raw
    /\ inv[i].responses = inv[j].responses
    => inv[i].bundle = inv[j].bundle

----------------------------------------------------------------------------
(* The handler of CallTool requests *)

\* JSON.parse(text): the value of a text, or a SyntaxError. Values are null,
\* booleans, numbers, strings and objects; the texts of the model have no
\* array, no sign, fraction or exponent, and no escape in a string.
JsonParse(t) ==
  LET Fail == [ok |-> FALSE, value |-> [json |-> "undefined"], next |-> 0]
      Quote == "\""
      RECURSIVE SkipWs(_)
      SkipWs(i) == IF i <= Len(t) /\ t[i] \in {" ", "\n", "\t"} THEN SkipWs(i + 1) ELSE i
      \* The index of the quote that closes the string opened before i, or 0.
      Closing(i) ==
        IF \E k \in i..Len(t) : t[k] = Quote
        THEN MinOf({k \in i..Len(t) : t[k] = Quote})
        ELSE 0
      \* The name of a member as a field name.
      RECURSIVE KeyOf(_)
      KeyOf(key) == IF key = <<>> THEN "" ELSE Head(key) \o KeyOf(Tail(key))
      RECURSIVE ParseValue(_)
      RECURSIVE ParseMembers(_, _)
      ParseValue(i) ==
        LET j == SkipWs(i)
        IN  IF j > Len(t) THEN Fail
            ELSE IF LiteralAt(t, j, <<"n", "u", "l", "l">>)
            THEN [ok |-> TRUE, value |-> [json |-> "null"], next |-> j + 4]
            ELSE IF LiteralAt(t, j, <<"t", "r", "u", "e">>)
            THEN [ok |-> TRUE, value |-> [json |-> "boolean", b |-> TRUE], next |-> j + 4]
            ELSE IF LiteralAt(t, j, <<"f", "a", "l", "s", "e">>)
            THEN [ok |-> TRUE, value |-> [json |-> "boolean", b |-> FALSE], next |-> j + 5]
            ELSE IF IsDigit(t[j])
            THEN IF t[j] = "0" /\ DigitRunEnd(t, j) > j THEN Fail
                 ELSE [ok |-> TRUE,
                       value |-> NumberValue(10 * DecimalValue(SubSeq(t, j, DigitRunEnd(t, j)))),
                       next |-> DigitRunEnd(t, j) + 1]
            ELSE IF t[j] = Quote
            THEN IF Closing(j + 1) = 0 THEN Fail
                 ELSE [ok |-> TRUE, value |-> StringValue(SubSeq(t, j + 1, Closing(j + 1) - 1)),
                       next |-> Closing(j + 1) + 1]
            ELSE IF t[j] = "{"
            THEN IF SkipWs(j + 1) <= Len(t) /\ t[SkipWs(j + 1)] = "}"
                 THEN [ok |-> TRUE, value |-> [json |-> "object", fields |-> <<>>],
                       next |-> SkipWs(j + 1) + 1]
                 ELSE ParseMembers(SkipWs(j + 1), <<>>)
            ELSE Fail
      \* The members of an object from i on: "name": value, then a comma and
      \* more members or the closing brace. The last member of a name wins.
      ParseMembers(i, fields) ==
        IF i > Len(t) \/ t[i] # Quote \/ Closing(i + 1) = 0 THEN Fail
        ELSE LET colon == SkipWs(Closing(i + 1) + 1)
                 member == IF colon <= Len(t) /\ t[colon] = ":" THEN ParseValue(colon + 1) ELSE Fail
                 after == SkipWs(member.next)
                 all == (KeyOf(SubSeq(t, i + 1, Closing(i + 1) - 1)) :> member.value) @@ fields
             IN  IF ~member.ok \/ after > Len(t) THEN Fail
                 ELSE IF t[after] = "," THEN ParseMembers(SkipWs(after + 1), all)
                 ELSE IF t[after] = "}"
                 THEN [ok |-> TRUE, value |-> [json |-> "object", fields |-> all],
                       next |-> after + 1]
                 ELSE Fail
  IN  IF ParseValue(1).ok /\ SkipWs(ParseValue(1).next) > Len(t)
      THEN [ok |-> TRUE, value |-> ParseValue(1).value]
      ELSE [ok |-> FALSE]

HandlerInit ==
      \* request.params.arguments: nothing, null, an object, or a string.
  LET NoArguments == [json |-> "undefined"]
      Object(fields) == [json |-> "object", fields |-> fields]
      Objects ==
        {Object(<<>>),
         Object([drug_name |-> StringValue(DrugAspirin)]),
         Object([drug_name |-> StringValue(DrugAspirin), limit |-> NumberValue(90)]),
         Object([drug_name |-> NumberValue(50)]),
         Object([query |-> StringValue(QueryBadRegex)]),
         Object([drug |-> StringValue(DrugAspirin), top_k |-> NumberValue(0)])}
      ArgumentTexts ==
        {<<"{", "\"", "d", "r", "u", "g", "_", "n", "a", "m", "e", "\"", ":", "\"", "a", "s", "p", "i", "r", "i", "n", "\"", "}">>,
         <<"{", "\"", "q", "u", "e", "r", "y", "\"", ":", "\"", "b", "l", "e", "e", "d", "i", "n", "g", " ", "r", "i", "s", "k", "\"", "}">>,
         <<"{", "\"", "d", "r", "u", "g", "_", "n", "a", "m", "e", "\"", ":", " ", "\"", "a", "s", "p", "i", "r", "i", "n", "\"", ",", " ", "\"", "l", "i", "m", "i", "t", "\"", ":", " ", "9", "}">>,
         <<"{", "}">>,
         <<"n", "u", "l", "l">>,
         <<"5">>,
         <<"{", "d", "r", "u", "g", "_", "n", "a", "m", "e", ":", "a", "s", "p", "i", "r", "i", "n", "}">>,
         <<>>,
         <<"{", "\"", "q", "u", "e", "r", "y", "\"", ":", "\"", "(", "b", "l", "e", "e", "d", "i", "n", "g", "\"">>,
         <<"{", "\"", "d", "r", "u", "g", "_", "n", "a", "m", "e", "\"", ":", "\"", "a", "s", "p", "i", "r", "i", "n", "\"", ",", "}">>}
      \* request.params.name: the five tools and two names of no tool.
      Names == DrugTools \cup {"search_drug_labels", "ae_pipeline_rag", "get_drug", ""}
  IN  /\ ChunkIdle
      /\ pc = "request"
      /\ \E name \in Names,
            rawArgs \in {NoArguments, [json |-> "null"]} \cup Objects
                          \cup {StringValue(str) : str \in ArgumentTexts} :
           args = [fn |-> "CallTool", name |-> name, arguments |-> rawArgs]
      /\ result = NoResult
      /\ inv = NoInvocations

\* Mutant: the catch of the handler wraps whatever it catches.
HandlerCatchWraps(raised) ==
  [kind |-> "throws", error |-> "InternalError", message |-> "Error executing tool",
   raised |-> raised]

\* The catch of the handler: an McpError is thrown on as it is, anything else
\* becomes McpError(InternalError, `Error executing tool ${name}: ${error}`).
HandlerCatch(raised) ==
  IF raised.mcp
  THEN [kind |-> "throws", error |-> raised.code, message |-> raised.message, raised |-> raised]
  ELSE [kind |-> "throws", error |-> "InternalError", message |-> "Error executing tool",
        raised |-> raised]

\* A CallTool request arrives: the handler decodes the arguments, enters the
\* case of the tool, parses the arguments with the schema of the tool, and the
\* method of the tool runs up to the await of makeRequest (aePipelineRag
\* returns before it when no search term is given).
HandleCall ==
  LET decoded == IF args.arguments.json = "string" THEN JsonParse(args.arguments.str)
                 ELSE [ok |-> TRUE, value |-> args.arguments]
      \* What if (!args) reads: undefined, null, false, 0 and "" are falsy.
      JsTruthy(v) ==
        /\ v.json \notin {"undefined", "null"}
        /\ v.json = "boolean" => v.b
        /\ v.json = "number" => v.tenths # 0
        /\ v.json = "string" => v.str # <<>>
      fields == IF decoded.value.json = "object" THEN decoded.value.fields ELSE <<>>
      StringOrAbsent(f, k) == k \in DOMAIN f => f[k].json = "string"
      \* z.coerce.number().int().min(lo).max(hi).optional() (the arguments of the
      \* model carry numbers or strings in these fields)
      IntegerOrAbsent(f, k, lo, hi) == k \in DOMAIN f => IntegerWithin(f[k], lo, hi)
      \* The parse of the case: whether the schema of the tool accepts args.
      Accepts(name) ==
        /\ decoded.value.json = "object"
        /\ CASE name = "search_drug_labels" ->
                  /\ StringOrAbsent(fields, "search")
                  /\ StringOrAbsent(fields, "count")
                  /\ "skip" \in DOMAIN fields =>
                       /\ ~ToNumber(fields.skip).nan
                       /\ ToNumber(fields.skip).tenths % 10 = 0
                       /\ ToNumber(fields.skip).tenths >= 0
                  /\ IntegerOrAbsent(fields, "limit", 1, 200)
             [] name \in DrugTools ->
                  /\ "drug_name" \in DOMAIN fields
                  /\ fields.drug_name.json = "string"
                  /\ IntegerOrAbsent(fields, "limit", DrugLimitMin, DrugLimitMax)
             [] name = "ae_pipeline_rag" ->
                  /\ StringOrAbsent(fields, "query")
                  /\ StringOrAbsent(fields, "drug")
                  /\ StringOrAbsent(fields, "condition")
                  /\ IntegerOrAbsent(fields, "top_k", TopKMin, TopKMax)
                  /\ "filters" \in DOMAIN fields =>
                       /\ fields.filters.json = "object"
                       /\ IntegerOrAbsent(fields.filters.fields, "limit", LimitMin, LimitMax)
      \* The arguments of ae_pipeline_rag the schema keeps.
      ragRaw ==
        [k \in DOMAIN fields \cap {"query", "drug", "condition", "top_k", "filters"} |->
           IF k \in {"query", "drug", "condition"} THEN fields[k].str
           ELSE IF k = "filters" THEN fields[k].fields
           ELSE fields[k]]
      Thrown(code, message) ==
        [kind |-> "throws", error |-> code, message |-> message,
         raised |-> [thrown |-> FALSE], ran |-> "none"]
      InTool(name, raised) == [thrown |-> TRUE, tool |-> name] @@ raised
  IN  /\ pc = "request"
      /\ args.fn = "CallTool"
      /\ IF ~decoded.ok
         THEN /\ result' = Thrown("InvalidParams", "Failed to parse arguments string")
              /\ pc' = "done"
         ELSE IF ~JsTruthy(decoded.value)
         THEN /\ result' = Thrown("InvalidParams", "Missing arguments")
              /\ pc' = "done"
         ELSE IF args.name \notin DrugTools \cup {"search_drug_labels", "ae_pipeline_rag"}
         THEN /\ result' = HandlerCatch(InTool("none", [mcp |-> TRUE, code |-> "MethodNotFound",
                                                       message |-> "Unknown tool"]))
                             @@ [ran |-> "none"]
              /\ pc' = "done"
         ELSE IF ~Accepts(args.name)
         THEN /\ result' = HandlerCatch(InTool(args.name, [mcp |-> FALSE, code |-> "none",
                                                          message |-> "ZodError"]))
                             @@ [ran |-> args.name]
              /\ pc' = "done"
         ELSE IF args.name = "ae_pipeline_rag" /\ ~HasSearch(ParsedParams(ragRaw))
         THEN /\ result' = [kind |-> "value", raised |-> [thrown |-> FALSE], ran |-> args.name,
                            value |-> EmptyBundle(ParsedParams(ragRaw), PromptSummary)]
              /\ pc' = "done"
         ELSE /\ result' = [kind |-> "pending", ran |-> args.name,
                            params |-> IF args.name = "ae_pipeline_rag" THEN ragRaw ELSE fields]
              /\ pc' = "awaiting"
      /\ UNCHANGED <<chunkVars, args, inv>>

\* makeRequest resolves with a body: the method of the tool runs to its end.
\* aePipelineRag may raise on the way, and its catch throws McpError.
HandlerFetchResolves ==
  LET ToolReturns(value) ==
        [kind |-> "value", raised |-> [thrown |-> FALSE], ran |-> args.name, value |-> value]
      RagFailure == [thrown |-> TRUE, tool |-> args.name, mcp |-> TRUE,
                     code |-> "InternalError", message |-> "RAG pipeline failed"]
  IN  /\ pc = "awaiting"
      /\ args.fn = "CallTool"
      /\ \E data \in ResponseBodies :
           \E randoms \in RandomDraws(data) :
             result' =
               CASE args.name = "search_drug_labels" ->
                      ToolReturns([meta |-> Option(data, "meta"),
                                results_count |-> IF "results" \in DOMAIN data
                                                  THEN Len(data.results) ELSE 0,
                                results |-> IF "results" \in DOMAIN data
                                            THEN data.results ELSE <<>>])
                 [] args.name \in DrugTools ->
                      ToolReturns(DrugResults(args.name, result.params.drug_name.str, data))
                 [] args.name = "ae_pipeline_rag" ->
                      IF Completions[<<result.params, data>>][randoms].throws
                      THEN HandlerCatch(RagFailure) @@ [ran |-> args.name]
                      ELSE ToolReturns(Completions[<<result.params, data>>][randoms].bundle)
      /\ pc' = "done"
      /\ UNCHANGED <<chunkVars, args, inv>>

\* fetch rejects or the response is not OK: makeRequest throws an Error. The
\* catch of aePipelineRag throws McpError(InternalError) for it; the other
\* tools let it through to the catch of the handler.
HandlerFetchFails ==
  /\ pc = "awaiting"
  /\ args.fn = "CallTool"
  /\ result' =
       HandlerCatch([thrown |-> TRUE, tool |-> args.name] @@
                    (IF args.name = "ae_pipeline_rag"
                     THEN [mcp |-> TRUE, code |-> "InternalError", message |-> "RAG pipeline failed"]
                     ELSE [mcp |-> FALSE, code |-> "none", message |-> "OpenFDA API error"]))
         @@ [ran |-> args.name]
  /\ pc' = "done"
  /\ UNCHANGED <<chunkVars, args, inv>>

HandlerNext == HandleCall \/ HandlerFetchResolves \/ HandlerFetchFails

HandlerSpec == HandlerInit /\ [][HandlerNext]_vars

----------------------------------------------------------------------------
(* Claims about the errors of the handler *)

HandlerDone == pc = "done" /\ args.fn = "CallTool"

\* The arguments are a string that is no JSON text.
ArgumentsNotJson == args.arguments.json = "string" /\ ~JsonParse(args.arguments.str).ok

\* The arguments are an object, given as it is or as a JSON text.
ArgumentsObject ==
  \/ args.arguments.json = "object"
  \/ /\ args.arguments.json = "string"
     /\ JsonParse(args.arguments.str).ok
     /\ JsonParse(args.arguments.str).value.json = "object"

\* C30: a call without arguments or with a string that is no JSON text fails
\* with InvalidParams and no case of a tool is entered; a call with arguments
\* that names no tool fails with MethodNotFound; an McpError raised by a tool
\* reaches the caller with its code; any other error raised by a tool (the
\* schema rejects the arguments, the fetch fails) is reported as
\* InternalError; a call in which a tool raised returns no result.
C30_ErrorMapping ==
  HandlerDone =>
    /\ (args.arguments.json = "undefined" \/ ArgumentsNotJson) =>
         result.kind = "throws" /\ result.error = "InvalidParams" /\ result.ran = "none"
    /\ (ArgumentsObject /\ args.name \notin DrugTools \cup {"search_drug_labels", "ae_pipeline_rag"}) =>
         result.kind = "throws" /\ result.error = "MethodNotFound"
    /\ (result.raised.thrown /\ result.raised.tool # "none" /\ result.raised.mcp) =>
         result.kind = "throws" /\ result.error = result.raised.code
    /\ (result.raised.thrown /\ result.raised.tool # "none" /\ ~result.raised.mcp) =>
         result.kind = "throws" /\ result.error = "InternalError"

\* A call of ae_pipeline_rag with its arguments in a JSON text whose pipeline
\* raised after the fetch had resolved: the error of the pipeline reaches the
\* caller as it was thrown.
C30_Witness ==
  /\ HandlerDone
  /\ args.name = "ae_pipeline_rag"
  /\ args.arguments.json = "string"
  /\ result.kind = "throws"
  /\ result.raised.thrown /\ result.raised.mcp
  /\ result.message = "RAG pipeline failed"

====
